---- MODULE Spec2Model ----
(***************************************************************************)
(* The game-session engine of psychotropic (src/psychotropic/cogs/games):  *)
(* the registry of running games, the two game variants, the background    *)
(* tasks tied to a running game and the scoreboard.                        *)
(*                                                                         *)
(* Everything runs on one asyncio event loop: a coroutine runs without     *)
(* interruption from one `await` that suspends to the next one.  Each      *)
(* action below is one such uninterrupted stretch of a handler or task.    *)
(* A network call (interaction.response.send_message, channel.send,        *)
(* pnwiki.get_substance) suspends its coroutine; the request goes out when *)
(* the call is made and the coroutine resumes in a later action.  Sends to *)
(* the chat platform are taken to succeed; the PsychonautWiki lookup may   *)
(* answer, answer with nothing, time out or fail otherwise.                *)
(*                                                                         *)
(* Balances and rewards are counted in half coins, the smallest amount the *)
(* structure game can credit (len(secret_chars) / 2).                      *)
(***************************************************************************)
EXTENDS Integers, Sequences, FiniteSets, TLC

\* ------------------------------------------------------------------ bounds
\* Number of running-game objects constructed in one behaviour.
MaxSessions == 2
\* Wrong guesses are handled only while the tries counter is below this.
MaxTries == 1

Channels == {"c1", "c2"}
Players  == {"alice", "bob"}
Sessions == 1..MaxSessions

\* registry.get(channel.id) when no game is registered for the channel.
None == 0

\* ------------------------------------------------------------------- text
\* Strings are sequences of characters, each written as a short string.
\* "E^" and "e^" stand for the accented letters E-acute and e-acute, "TM"
\* for the trade mark sign U+2122 and "o/" for the letter o with stroke
\* U+00F8; every other character is the ASCII character it shows.
Uppercase ==
    <<"A", "B", "C", "D", "E", "I", "M", "N", "P", "R", "S", "T", "E^">>
Lowercase ==
    <<"a", "b", "c", "d", "e", "i", "m", "n", "p", "r", "s", "t", "e^">>

\* The lowercase mapping of the characters that have one.
LowerOf ==
    [c \in {Uppercase[i] : i \in 1..Len(Uppercase)} |->
        Lowercase[CHOOSE i \in 1..Len(Uppercase) : Uppercase[i] = c]]

\* str.lower(), character by character.  The trade mark sign has no
\* lowercase mapping.
lower(string) ==
    [i \in 1..Len(string) |->
        IF string[i] \in DOMAIN LowerOf THEN LowerOf[string[i]] ELSE string[i]]

\* NFKD decomposition of one character followed by an ASCII encoding that
\* ignores what it cannot encode: an accented letter becomes its base
\* letter, the trade mark sign decomposes to the capital letters T and M,
\* and a non-ASCII character without a decomposition disappears.
UnaccentChar(c) ==
    CASE c = "E^" -> <<"E">>
      [] c = "e^" -> <<"e">>
      [] c = "TM" -> <<"T", "M">>
      [] c = "o/" -> <<>>
      [] OTHER -> <<c>>

RECURSIVE unaccent(_)
unaccent(string) ==
    IF string = <<>> THEN <<>>
    ELSE UnaccentChar(Head(string)) \o unaccent(Tail(string))

RECURSIVE Strip(_, _)
Strip(string, non_word) ==
    IF string = <<>> THEN <<>>
    ELSE IF Head(string) \in non_word THEN Strip(Tail(string), non_word)
    ELSE <<Head(string)>> \o Strip(Tail(string), non_word)

\* An unformat that leaves accents in place.
unformat_accented(string, non_word) == Strip(lower(string), non_word)

unformat(string, non_word) == Strip(unaccent(lower(string)), non_word)

\* Python's `a in b` on strings.
IsSubstring(a, b) ==
    \E i \in 0..(Len(b) - Len(a)) : SubSeq(b, i + 1, i + Len(a)) = a

\* StructureGame.NON_WORD and the default `non_word` of unformat.
NON_WORD == {"(", ")", ";", "-", ",", " "}
DEFAULT_NON_WORD == NON_WORD \cup {"_"}

\* ------------------------------------------------------------- game data
\* Stems of the schematic files in the cache directory once
\* fetch_schematics has filled it.
Schematics == { <<"2", "C", "-", "B">> }

\* Names of the popular well-known substances of the reagents database.
PopularSubstances == { <<"M", "D", "M", "A">> }

\* Message contents a player may type.
Guesses ==
    { <<"2", "c", " ", "b", "!">>, <<"M", "d", "m", "a">>,
      <<"a", "c", "e", "t", "a">> }

\* ------------------------------------------------------------------ state
VARIABLES
    registry,   \* BaseRunningGame.registry: channel -> running game or None
    created,    \* number of running-game objects constructed so far
    variant,    \* class of each running game
    channel,    \* self.channel
    owner,      \* self.owner
    game,       \* self.game: the StructureGame or ReagentsGame object
    tasks,      \* self.tasks: the tracked asyncio tasks of each running game
    taskpc,     \* where each task's coroutine is suspended
    cancelled,  \* tasks with a cancellation requested and not yet delivered
    startpc,    \* where the start() call that built the game is suspended
    outcome,    \* how each running game ended: which caller of end() came first
    players,    \* Scoreboard.players
    last,       \* the stretch of a handler or task that ran last
    obj,        \* a game object exercised on its own, call by call
    calls,      \* number of get_clue() calls made on obj
    ret,        \* the last call made on obj or on a helper, and its result
    file,       \* contents of Scoreboard.SCOREBOARD_PATH (players.json)
    flushed,    \* Scoreboard.players as it was when save() last wrote it
    schematics  \* SchematicRegistry._schematics, as the stems of the files

sessVars == <<created, variant, channel, owner>>
taskVars == <<tasks, taskpc, cancelled>>
unitVars == <<obj, calls, ret>>
storeVars == <<file, flushed>>
cacheVars == <<schematics>>
vars == <<registry, created, variant, channel, owner, game, tasks, taskpc,
          cancelled, startpc, outcome, players, last, obj, calls, ret,
          file, flushed, schematics>>

\* One task is created per start() call, so tasks are named after the
\* running game whose start() created them.
Tasks == Sessions

Variants == {"structure", "reagents"}

NoGame == [kind |-> "none"]

\* No call made yet, and no scoreboard file written yet.
NoCall == [call |-> "none"]
NoFile == [exists |-> FALSE]

\* A Python set and a Python list (a JSON array once decoded): the type is
\* kept because a list has no add().
PySet(items) == [type |-> "set", items |-> items]
PyList(items) == [type |-> "list", items |-> items]

\* Profile(): the dataclass defaults.
DefaultProfile ==
    [balance |-> 0, found_structure_substances |-> PySet({}),
     won_structure_games |-> 0, won_reagents_games |-> 0]

\* What pnwiki.get_substance can do: return a substance, return None, raise
\* httpx.TimeoutException, or raise something else (transport error, bad
\* payload).
LookupOutcomes == {"found", "none", "timeout", "error"}

\* A stretch that ran: which one, on which running game, and what became of
\* the end-of-round message it had to send ("none" when it has none to
\* send, "failed" when make_end_view raised before the send).
Event(op, c, s) == [op |-> op, chan |-> c, sess |-> s, msg |-> "none"]
EndEvent(op, c, s, view) ==
    [op |-> op, chan |-> c, sess |-> s,
     msg |-> CASE view = "raise" -> "failed"
               [] view = "link" -> "link"
               [] OTHER -> "nolink"]

Init ==
    /\ registry = [c \in Channels |-> None]
    /\ created = 0
    /\ variant = [s \in Sessions |-> "none"]
    /\ channel = [s \in Sessions |-> "none"]
    /\ owner = [s \in Sessions |-> "none"]
    /\ game = [s \in Sessions |-> NoGame]
    /\ tasks = [s \in Sessions |-> {}]
    /\ taskpc = [t \in Tasks |-> "none"]
    /\ cancelled = {}
    /\ startpc = [s \in Sessions |-> "none"]
    /\ outcome = [s \in Sessions |-> "none"]
    /\ players = [p \in Players |-> DefaultProfile]
    /\ last = Event("init", "none", None)
    /\ obj = NoGame
    /\ calls = 0
    /\ ret = NoCall
    /\ file = NoFile
    /\ flushed = NoFile
    /\ schematics = {}

\* ------------------------------------------------------------ game logic
\* Positions of the characters of `substance` that are not in NON_WORD,
\* counted from 0 as enumerate() does.
SecretPositions(substance) ==
    LET RECURSIVE From(_)
        From(i) ==
            IF i > Len(substance) THEN <<>>
            ELSE IF substance[i] \in NON_WORD THEN From(i + 1)
            ELSE <<i - 1>> \o From(i + 1)
    IN From(1)

Reverse(seq) == [i \in 1..Len(seq) |-> seq[Len(seq) + 1 - i]]

\* utils.shuffled: the orders of `collection` the model draws from.
shuffled(collection) == {collection, Reverse(collection)}

\* StructureGame.__init__ for a picked substance and a drawn shuffle.
NewStructureGame(substance, secret_chars) ==
    [kind |-> "StructureGame", substance |-> substance,
     secret_chars |-> secret_chars, guess_len |-> Len(secret_chars),
     tries |-> 0]

\* ReagentsGame.__init__ for a picked substance.
NewReagentsGame(substance) ==
    [kind |-> "ReagentsGame", substance |-> substance, tries |-> 0]

\* The game objects the cogs may construct for a new running game: a
\* structure game on any substance pick_substance may draw from the
\* registry, a reagents game on any popular substance.
NewGames(v) ==
    IF v = "structure"
    THEN { NewStructureGame(sub, sh) :
             <<sub, sh>> \in UNION { {sub} \X shuffled(SecretPositions(sub))
                                       : sub \in schematics } }
    ELSE { NewReagentsGame(sub) : sub \in PopularSubstances }

\* StructureGame.is_correct / ReagentsGame.is_correct, without the counter.
Matches(g, guess) ==
    IF g.kind = "StructureGame"
    THEN IsSubstring(unformat(g.substance, NON_WORD), unformat(guess, NON_WORD))
    ELSE IsSubstring(unformat(g.substance, DEFAULT_NON_WORD),
                     unformat(guess, DEFAULT_NON_WORD))

\* A reward whose bonus also covers the second attempt.
reward_late_bonus(g) ==
    IF g.kind = "StructureGame"
    THEN IF g.tries <= 2 THEN 2 * Len(g.secret_chars) ELSE Len(g.secret_chars)
    ELSE IF g.tries <= 2 THEN 2 * 50 ELSE 2 * 25

\* A reward that is never halved.
reward_full(g) ==
    IF g.kind = "StructureGame" THEN 2 * Len(g.secret_chars) ELSE 2 * 50

\* A reward without the first-try bonus.
reward_halved(g) ==
    IF g.kind = "StructureGame" THEN Len(g.secret_chars) ELSE 2 * 25

\* A reward that charges the winner for the attempts made.
reward_minus_tries(g) ==
    IF g.kind = "StructureGame"
    THEN Len(g.secret_chars) - 2 * 4 * g.tries
    ELSE 2 * 25 - 2 * 50 * g.tries

\* StructureGame.reward / ReagentsGame.reward, in half coins.
reward(g) ==
    IF g.kind = "StructureGame"
    THEN IF g.tries <= 1 THEN 2 * Len(g.secret_chars) ELSE Len(g.secret_chars)
    ELSE IF g.tries = 1 THEN 2 * 50 ELSE 2 * 25

Max(a, b) == IF a >= b THEN a ELSE b
Min(a, b) == IF a <= b THEN a ELSE b

\* A get_clue that pops guess_len // 4 times, without the floor of one.
get_clue_quarter(g) ==
    LET n == Min(g.guess_len \div 4, Len(g.secret_chars))
    IN [g EXCEPT !.secret_chars = SubSeq(g.secret_chars, 1,
                                         Len(g.secret_chars) - n)]

\* StructureGame.get_clue: pop from the end of secret_chars
\* max(1, guess_len // 4) times, stopping when the list is empty.
get_clue(g) ==
    LET n == Min(Max(1, g.guess_len \div 4), Len(g.secret_chars))
    IN [g EXCEPT !.secret_chars = SubSeq(g.secret_chars, 1,
                                         Len(g.secret_chars) - n)]

\* -------------------------------------------------------- running games
\* An isinstance that holds for every class.
IsInstanceOfAny(s, cls) == TRUE

\* A class test that tells no subclass from its base class.
IsInstanceExact(s, cls) == variant[s] = cls

\* isinstance(running_game, cls) for the three classes.
IsInstance(s, cls) == cls = "base" \/ variant[s] = cls

\* A lookup that returns a running game of the class whatever its channel.
get_from_context_anywhere(cls, c) ==
    IF \E c2 \in Channels : registry[c2] # None /\ IsInstance(registry[c2], cls)
    THEN registry[CHOOSE c2 \in Channels :
                    registry[c2] # None /\ IsInstance(registry[c2], cls)]
    ELSE None

\* BaseRunningGame.get_from_context, called on class `cls`.
get_from_context(cls, c) ==
    IF registry[c] # None /\ IsInstance(registry[c], cls)
    THEN registry[c]
    ELSE None

\* A guard that admits every start.
AdmittedAlways(c) == TRUE

\* The guard of BaseRunningGame.start: no game of any class is registered
\* for the channel.
Admitted(c) == get_from_context("base", c) = None

\* BaseRunningGame.__init__: the registry after registering game s.
Register(c, s) == [registry EXCEPT ![c] = s]

\* A pop that does not look at which instance is registered.
UnregisterAlways(s) == [registry EXCEPT ![channel[s]] = None]

\* BaseRunningGame.end: the registry after the identity-checked pop.
Unregister(s) ==
    IF registry[channel[s]] = s
    THEN [registry EXCEPT ![channel[s]] = None]
    ELSE registry

\* BaseRunningGame.end: the tasks with a cancellation requested after the
\* loop over self.tasks.
CancelAll(s) == cancelled \cup tasks[s]

\* Which caller of end() ended game s first.
Ended(s, how) ==
    [outcome EXCEPT ![s] = IF @ = "none" THEN how ELSE @]

\* A permission test that lets anyone end a game.
can_be_ended_by_anyone(s, p, manage_messages) == TRUE

\* BaseRunningGame.can_be_ended.
can_be_ended(s, p, manage_messages) == p = owner[s] \/ manage_messages

\* make_end_view of either class for an outcome of pnwiki.get_substance:
\* the view with the link button, the view without it, or the exception
\* that leaves the method.  Only RunningStructureGame catches
\* TimeoutException.
make_end_view(v, lookup) ==
    CASE lookup = "found" -> "link"
      [] lookup = "none" -> "nolink"
      [] lookup = "timeout" -> IF v = "structure" THEN "nolink" ELSE "raise"
      [] OTHER -> "raise"

\* The winner's profile after check_answer credits it.  The structure
\* game adds the substance to found_structure_substances last; on a list,
\* which has no add(), that statement raises AttributeError and the two
\* before it stay done.
Credit(profile, v, g) ==
    IF v = "structure"
    THEN [profile EXCEPT
            !.balance = @ + reward(g),
            !.won_structure_games = @ + 1,
            !.found_structure_substances =
                IF @.type = "set" THEN PySet(@.items \cup {g.substance}) ELSE @]
    ELSE [profile EXCEPT
            !.balance = @ + reward(g),
            !.won_structure_games = @ + 1]

\* ---------------------------------------------------------------- actions
\* `/game structure` and `/game reagents`: the cog builds the game object
\* and calls start(), which either answers that a game is running or
\* constructs (and so registers) the running game and then suspends on the
\* message announcing it.
Start(v, c, p, g) ==
    IF ~Admitted(c)
    THEN /\ last' = Event("start_rejected", c, None)
         /\ UNCHANGED <<registry, sessVars, game, taskVars, startpc, outcome, players>>
    ELSE /\ created < MaxSessions
         /\ LET s == created + 1 IN
              /\ created' = s
              /\ registry' = Register(c, s)
              /\ variant' = [variant EXCEPT ![s] = v]
              /\ channel' = [channel EXCEPT ![s] = c]
              /\ owner' = [owner EXCEPT ![s] = p]
              /\ game' = [game EXCEPT ![s] = g]
              /\ startpc' = [startpc EXCEPT ![s] = "send"]
              /\ last' = Event("start", c, s)
         /\ UNCHANGED <<taskVars, outcome, players>>

\* StructureGameCog.on_ready: prepare_registry awaits fetch_schematics,
\* which ends by listing the cache directory into the registry.  The files
\* stay, so a later on_ready (a reconnection) lists them again and changes
\* nothing.
OnReady(pool) ==
    /\ schematics = {}
    /\ schematics' = pool
    /\ last' = Event("ready", "none", None)
    /\ UNCHANGED <<registry, sessVars, game, taskVars, startpc, outcome, players>>

\* A command that builds its game from the cache directory without asking
\* the registry whether it was filled.
StructureCommandUnchecked(c, p) ==
    \E sub \in Schematics :
      \E sh \in shuffled(SecretPositions(sub)) :
        Start("structure", c, p, NewStructureGame(sub, sh))

\* `/game structure`: StructureGame() raises UnfetchedRegistryError while
\* the registry is empty and the command answers with the warming-up
\* message; otherwise the command calls start() with the game it built.
StructureCommand(c, p) ==
    IF schematics = {}
    THEN /\ last' = Event("start_not_ready", c, None)
         /\ UNCHANGED <<registry, sessVars, game, taskVars, startpc, outcome, players>>
    ELSE \E g \in NewGames("structure") : Start("structure", c, p, g)

\* `/game reagents`: the command calls start() with a new ReagentsGame.
ReagentsCommand(c, p) ==
    \E g \in NewGames("reagents") : Start("reagents", c, p, g)

\* A replay that starts again with the game object of the ended game.
ReplaySameGame(s, p) ==
    /\ s \in 1..created
    /\ outcome[s] # "none" \/ taskpc[s] = "send"
    /\ Start(variant[s], channel[s], p, game[s])

\* The "Play again" button of an end view: ReplayView.replay calls
\* BaseRunningGame.replay of the running game s the view was made for,
\* which calls start() of its class with a new game object of the class of
\* its game, in the channel of the interaction, the one the view was sent
\* to.  An end view is made for the end-of-round message, after end() in
\* check_answer and in `/game end`, before it in send_clue and timeout.
Replay(s, p) ==
    /\ s \in 1..created
    /\ outcome[s] # "none" \/ taskpc[s] = "send"
    /\ \E g \in NewGames(variant[s]) : Start(variant[s], channel[s], p, g)

\* start() resumes once the announcing message is sent and creates the
\* game's task: send_clue for a structure game, timeout for a reagents game.
CreateTask(s) ==
    /\ startpc[s] = "send"
    /\ startpc' = [startpc EXCEPT ![s] = "done"]
    /\ tasks' = [tasks EXCEPT ![s] = @ \cup {s}]
    /\ taskpc' = [taskpc EXCEPT ![s] = "sleep"]
    /\ last' = Event("create_task", channel[s], s)
    /\ UNCHANGED <<registry, sessVars, game, cancelled, outcome,
                   players>>

\* Names of the substances of the reagents database.
KnownSubstances == PopularSubstances \cup { <<"2", "C", "-", "B">> }

\* ReagentsDatabase.search_substance, as whether it returns a substance: a
\* substance whose unformatted name is in the unformatted query, or else
\* one whose unformatted full name contains the unformatted query.
search_substance(name) ==
    \/ \E sub \in KnownSubstances :
         IsSubstring(unformat(sub, DEFAULT_NON_WORD), unformat(name, DEFAULT_NON_WORD))
    \/ \E sub \in KnownSubstances :
         IsSubstring(unformat(name, DEFAULT_NON_WORD), unformat(sub, DEFAULT_NON_WORD))

\* A wrong guess that also cancels the tasks of the running game.
WrongGuessStopsTimer(s, c, g, guess) ==
    /\ game[s].tries < MaxTries
    /\ game' = [game EXCEPT ![s] = g]
    /\ cancelled' = CancelAll(s)
    /\ last' = Event("wrong_guess", c, s)
    /\ UNCHANGED <<registry, sessVars, tasks, taskpc, startpc, outcome, players>>

\* check_answer when is_correct returned False, g being the game with the
\* attempt counted: the structure game does nothing more; the reagents
\* game sends the comparison with the guessed substance when the message
\* names one of the database.
WrongGuess(s, c, g, guess) ==
    /\ game[s].tries < MaxTries
    /\ game' = [game EXCEPT ![s] = g]
    /\ last' = [Event("wrong_guess", c, s) EXCEPT
                  !.msg = IF variant[s] = "reagents" /\ search_substance(guess)
                          THEN "comparison" ELSE "none"]
    /\ UNCHANGED <<registry, sessVars, taskVars, startpc, outcome, players>>

\* on_message of the cog of class `cls` for a message of player p in
\* channel c.  check_answer runs to the credit of the reward without
\* suspending; what follows only builds the end view (the lookup) and sends
\* the end-of-round message.
OnMessage(cls, c, p, guess) ==
    LET s == get_from_context(cls, c) IN
    IF s = None
    THEN /\ last' = Event("message_ignored", c, None)
         /\ UNCHANGED <<registry, sessVars, game, taskVars, startpc, outcome, players>>
    ELSE LET g == [game[s] EXCEPT !.tries = @ + 1] IN
         IF Matches(g, guess)
         THEN /\ game' = [game EXCEPT ![s] = g]
              /\ cancelled' = CancelAll(s)
              /\ registry' = Unregister(s)
              /\ outcome' = Ended(s, "won")
              /\ players' = [players EXCEPT ![p] = Credit(@, variant[s], g)]
              /\ \E lookup \in LookupOutcomes :
                   last' = EndEvent("win", c, s, make_end_view(variant[s], lookup))
              /\ UNCHANGED <<sessVars, tasks, taskpc, startpc>>
         ELSE WrongGuess(s, c, g, guess)

\* `/game end`: end() runs without suspending; send_end_message then builds
\* the end view (the lookup) and sends the end-of-round message.
EndCommand(c, p, manage_messages) ==
    LET s == get_from_context("base", c) IN
    IF s = None
    THEN /\ last' = Event("end_no_game", c, None)
         /\ UNCHANGED <<registry, sessVars, game, taskVars, startpc, outcome, players>>
    ELSE IF ~can_be_ended(s, p, manage_messages)
    THEN /\ last' = Event("end_refused", c, s)
         /\ UNCHANGED <<registry, sessVars, game, taskVars, startpc, outcome, players>>
    ELSE /\ cancelled' = CancelAll(s)
         /\ registry' = Unregister(s)
         /\ outcome' = Ended(s, "manual")
         /\ \E lookup \in LookupOutcomes :
              last' = EndEvent("manual_end", c, s, make_end_view(variant[s], lookup))
         /\ UNCHANGED <<sessVars, game, tasks, taskpc, startpc, players>>

\* ------------------------------------------------------------------ tasks
\* A task is suspended at an await of its coroutine.
Suspended(t) == taskpc[t] \in {"sleep", "lookup", "send"}

\* The running game a task belongs to.
GameOf(t) == t

\* A done callback that leaves the task in the set.
ForgetNothing(t) == tasks

\* The done callback installed by create_task: self.tasks.remove(task).
Forget(t) == [tasks EXCEPT ![GameOf(t)] = @ \ {t}]

\* A task on which cancel() was called gets CancelledError thrown into its
\* coroutine at the await where it is suspended; nothing catches it, the
\* task ends and its done callback runs.
TaskCancelled(t) ==
    /\ Suspended(t)
    /\ t \in cancelled
    /\ taskpc' = [taskpc EXCEPT ![t] = "done"]
    /\ cancelled' = cancelled \ {t}
    /\ tasks' = Forget(t)
    /\ last' = Event("task_cancelled", channel[GameOf(t)], GameOf(t))
    /\ UNCHANGED <<registry, sessVars, game, startpc, outcome,
                   players>>

\* RunningStructureGame.send_clue from the end of its sleep: reveal some
\* more letters, then either send the clue and sleep again (the recursive
\* call) or start building the end view of the timeout message.
SendClue(t) ==
    LET s == GameOf(t)
        g == get_clue(game[s])
    IN
    /\ variant[s] = "structure"
    /\ taskpc[t] = "sleep"
    /\ t \notin cancelled
    /\ game' = [game EXCEPT ![s] = g]
    /\ IF g.secret_chars # <<>>
       THEN /\ taskpc' = taskpc
            /\ last' = Event("clue", channel[s], s)
       ELSE /\ taskpc' = [taskpc EXCEPT ![t] = "lookup"]
            /\ last' = Event("exhausted", channel[s], s)
    /\ UNCHANGED <<registry, sessVars, tasks, cancelled, startpc, outcome, players>>

\* A timeout that goes back to sleep after it has fired.
TimerFiresAndRearms(t) ==
    LET s == GameOf(t) IN
    /\ variant[s] = "reagents"
    /\ taskpc[t] = "sleep"
    /\ t \notin cancelled
    /\ last' = Event("timer", channel[s], s)
    /\ UNCHANGED <<registry, sessVars, game, tasks, taskpc, cancelled, startpc,
                   outcome, players>>

\* RunningReagentsGame.timeout from the end of its sleep: start building the
\* end view of the timeout message.
TimerFires(t) ==
    LET s == GameOf(t) IN
    /\ variant[s] = "reagents"
    /\ taskpc[t] = "sleep"
    /\ t \notin cancelled
    /\ taskpc' = [taskpc EXCEPT ![t] = "lookup"]
    /\ last' = Event("timer", channel[s], s)
    /\ UNCHANGED <<registry, sessVars, game, tasks, cancelled, startpc,
                   outcome, players>>

\* make_end_view returns into send_clue or timeout, which sends the
\* "no one found the solution" message; or it raises, and the exception
\* ends the task.
AnnounceTimeout(t, lookup) ==
    LET s == GameOf(t)
        view == make_end_view(variant[s], lookup)
    IN
    /\ taskpc[t] = "lookup"
    /\ t \notin cancelled
    /\ IF view = "raise"
       THEN /\ taskpc' = [taskpc EXCEPT ![t] = "done"]
            /\ tasks' = Forget(t)
            /\ last' = Event("task_failed", channel[s], s)
       ELSE /\ taskpc' = [taskpc EXCEPT ![t] = "send"]
            /\ tasks' = tasks
            /\ last' = EndEvent("announce", channel[s], s, view)
    /\ UNCHANGED <<registry, sessVars, game, cancelled, startpc, outcome, players>>

\* The timeout message is sent: send_clue or timeout calls end() and
\* returns, and the done callback of the task runs.
TimeoutEnd(t) ==
    LET s == GameOf(t) IN
    /\ taskpc[t] = "send"
    /\ t \notin cancelled
    /\ cancelled' = CancelAll(s) \ {t}
    /\ registry' = Unregister(s)
    /\ outcome' = Ended(s, "timeout")
    /\ taskpc' = [taskpc EXCEPT ![t] = "done"]
    /\ tasks' = Forget(t)
    /\ last' = Event("timeout_end", channel[s], s)
    /\ UNCHANGED <<sessVars, game, startpc, players>>

\* Players are interchangeable, so the player who starts the first game is
\* taken to be the same one in every behaviour.
Starters(plrs) == IF created = 0 THEN {CHOOSE p \in plrs : TRUE} ELSE plrs

\* The steps of the event loop, for commands and messages that arrive in
\* the channels `chans` from the players `plrs`.
NextOn(chans, plrs) ==
    \/ /\ OnReady(Schematics)
       /\ UNCHANGED <<unitVars, storeVars>>
    \/ /\ \E c \in chans, p \in Starters(plrs) : StructureCommand(c, p)
       /\ UNCHANGED <<unitVars, storeVars, cacheVars>>
    \/ /\ \E c \in chans, p \in Starters(plrs) : ReagentsCommand(c, p)
       /\ UNCHANGED <<unitVars, storeVars, cacheVars>>
    \/ /\ \E s \in Sessions, p \in plrs : Replay(s, p)
       /\ UNCHANGED <<unitVars, storeVars, cacheVars>>
    \/ /\ \E s \in Sessions : CreateTask(s)
       /\ UNCHANGED <<unitVars, storeVars, cacheVars>>
    \/ /\ \E cls \in Variants, c \in chans, p \in plrs, guess \in Guesses :
            OnMessage(cls, c, p, guess)
       /\ UNCHANGED <<unitVars, storeVars, cacheVars>>
    \/ /\ \E c \in chans, p \in plrs, manage_messages \in BOOLEAN :
            EndCommand(c, p, manage_messages)
       /\ UNCHANGED <<unitVars, storeVars, cacheVars>>
    \/ /\ \E t \in Tasks : TaskCancelled(t)
       /\ UNCHANGED <<unitVars, storeVars, cacheVars>>
    \/ /\ \E t \in Tasks : SendClue(t)
       /\ UNCHANGED <<unitVars, storeVars, cacheVars>>
    \/ /\ \E t \in Tasks : TimerFires(t)
       /\ UNCHANGED <<unitVars, storeVars, cacheVars>>
    \/ /\ \E t \in Tasks, lookup \in LookupOutcomes : AnnounceTimeout(t, lookup)
       /\ UNCHANGED <<unitVars, storeVars, cacheVars>>
    \/ /\ \E t \in Tasks : TimeoutEnd(t)
       /\ UNCHANGED <<unitVars, storeVars, cacheVars>>

Next == NextOn({"c1"}, Players)

Spec == Init /\ [][Next]_vars

\* The event loop with one player, and with what asyncio and the network
\* timeouts provide: a coroutine whose await has completed is resumed (the
\* send of start() returns, a sleep ends, the lookup answers or times out,
\* the send of the timeout message returns) and a requested cancellation is
\* delivered.
FairNext == NextOn({"c1"}, {"alice"})

FairSpec ==
    /\ Init
    /\ [][FairNext]_vars
    /\ \A s \in Sessions : WF_vars(CreateTask(s) /\ UNCHANGED <<unitVars, storeVars, cacheVars>>)
    /\ \A t \in Tasks :
         /\ WF_vars(TaskCancelled(t) /\ UNCHANGED <<unitVars, storeVars, cacheVars>>)
         /\ WF_vars(SendClue(t) /\ UNCHANGED <<unitVars, storeVars, cacheVars>>)
         /\ WF_vars(TimerFires(t) /\ UNCHANGED <<unitVars, storeVars, cacheVars>>)
         /\ WF_vars((\E lookup \in LookupOutcomes : AnnounceTimeout(t, lookup))
                      /\ UNCHANGED <<unitVars, storeVars, cacheVars>>)
         /\ WF_vars(TimeoutEnd(t) /\ UNCHANGED <<unitVars, storeVars, cacheVars>>)

\* The same event loop with commands and messages of one player arriving
\* in two channels.  Channels are interchangeable, so until a game is
\* started everything is taken to arrive in the same one.
OpenChannels == IF created = 0 THEN {"c1"} ELSE Channels

ChannelsNext == NextOn(OpenChannels, {"alice"})

ChannelsSpec == Init /\ [][ChannelsNext]_vars

\* ------------------------------------------------- game objects on their own
\* The Discord-agnostic classes StructureGame and ReagentsGame, exercised
\* call by call on one object, outside any running game.
UnitSubstances ==
    { <<"2", "C", "-", "B">>,
      <<"A", "S", "P", "I", "R", "I", "N">>,
      <<"P", "I", "R", "A", "C", "E", "T", "A", "M">> }

\* Strings passed to is_correct.
UnitGuesses ==
    { <<"2", "c", "b">>, <<"2", "C", " ", "B">>, <<"2", "c", "_", "b">>,
      <<"A", "s", "p", "i", "r", "i", "n", "!">>,
      <<"a", "c", "e", "t", "a">>,
      <<"p", "i", "r", "a", "c", "e^", "t", "a", "m">>,
      <<"P", "-", "I", "R", "A", "C", "E^", "T", "A", "M">>,
      <<"TM">> }

\* is_correct is called on the object only while tries is below this.
MaxObjTries == 3
\* get_clue is called at most this many times more than there are
\* guessable characters.
MaxExtraCalls == 1

\* StructureGame.clue: the name with the hidden characters masked.
clue(g) ==
    [i \in 1..Len(g.substance) |->
        IF g.substance[i] \in NON_WORD
           \/ \A k \in 1..Len(g.secret_chars) : g.secret_chars[k] # i - 1
        THEN g.substance[i]
        ELSE "_"]

\* StructureGame.is_correct / ReagentsGame.is_correct: the object after the
\* call and the value returned.
is_correct(g, guess) ==
    [game |-> [g EXCEPT !.tries = @ + 1], value |-> Matches(g, guess)]

\* StructureGame() or ReagentsGame() is constructed.
NewGame(g) ==
    /\ obj = NoGame
    /\ obj' = g
    /\ calls' = 0
    /\ ret' = [call |-> "__init__"]

\* obj.get_clue()
GetClue ==
    /\ obj.kind = "StructureGame"
    /\ calls < obj.guess_len + MaxExtraCalls
    /\ obj' = get_clue(obj)
    /\ calls' = calls + 1
    /\ ret' = [call |-> "get_clue", before |-> obj.secret_chars,
               value |-> clue(obj')]

\* obj.is_correct(guess)
IsCorrect(guess) ==
    /\ obj # NoGame
    /\ obj.tries < MaxObjTries
    /\ obj' = is_correct(obj, guess).game
    /\ ret' = [call |-> "is_correct", guess |-> guess, before |-> obj.tries,
               value |-> is_correct(obj, guess).value]
    /\ calls' = calls

\* obj.reward
Reward ==
    /\ obj # NoGame
    /\ ret' = [call |-> "reward", value |-> reward(obj)]
    /\ UNCHANGED <<obj, calls>>

\* Everything the running games and the scoreboard file hold.
engineVars == <<registry, created, variant, channel, owner, game, tasks,
                taskpc, cancelled, startpc, outcome, players, last>>

GameNext ==
    \/ /\ \E sub \in UnitSubstances :
            \E g \in {NewReagentsGame(sub)}
                       \cup {NewStructureGame(sub, sh) :
                               sh \in shuffled(SecretPositions(sub))} :
              NewGame(g)
       /\ UNCHANGED <<engineVars, storeVars, cacheVars>>
    \/ /\ GetClue
       /\ UNCHANGED <<engineVars, storeVars, cacheVars>>
    \/ /\ \E guess \in UnitGuesses : IsCorrect(guess)
       /\ UNCHANGED <<engineVars, storeVars, cacheVars>>
    \/ /\ Reward
       /\ UNCHANGED <<engineVars, storeVars, cacheVars>>

GameSpec == Init /\ [][GameNext]_vars

\* --------------------------------------------------- one structure round
\* A round of the structure game in channel c1 with ASPIRIN the only
\* schematic of the cache, with the two messages "aceta" and "Aspirin!" typed by the players.
ScenarioSecret == <<"A", "S", "P", "I", "R", "I", "N">>
ScenarioGuesses ==
    { <<"a", "c", "e", "t", "a">>,
      <<"A", "s", "p", "i", "r", "i", "n", "!">> }

ScenarioNext ==
    \/ /\ OnReady({ScenarioSecret})
       /\ UNCHANGED <<unitVars, storeVars>>
    \/ /\ StructureCommand("c1", "alice")
       /\ UNCHANGED <<unitVars, storeVars, cacheVars>>
    \/ /\ \E s \in Sessions : CreateTask(s)
       /\ UNCHANGED <<unitVars, storeVars, cacheVars>>
    \/ /\ \E p \in Players, guess \in ScenarioGuesses :
            OnMessage("structure", "c1", p, guess)
       /\ UNCHANGED <<unitVars, storeVars, cacheVars>>
    \/ /\ \E t \in Tasks : TaskCancelled(t)
       /\ UNCHANGED <<unitVars, storeVars, cacheVars>>
    \/ /\ \E t \in Tasks : SendClue(t)
       /\ UNCHANGED <<unitVars, storeVars, cacheVars>>
    \/ /\ \E t \in Tasks, lookup \in LookupOutcomes : AnnounceTimeout(t, lookup)
       /\ UNCHANGED <<unitVars, storeVars, cacheVars>>
    \/ /\ \E t \in Tasks : TimeoutEnd(t)
       /\ UNCHANGED <<unitVars, storeVars, cacheVars>>

ScenarioSpec == Init /\ [][ScenarioNext]_vars

\* ------------------------------------------------------ clues of one game
\* ReagentsGame.pick_clues on the reagent results of one substance.  A
\* result is known by its rank among the descriptions of the substance
\* (str(result) is its description) and by whether it lists a color change.

\* A substance has at most this many results.
MaxResults == 10
\* The length of the slice results[:9].
CLUE_SLICE == 9
\* The values random() is taken to return.
RandomValues == {0, 1}

\* list(self.substance.results.values()) for a substance with n results,
\* those with ranks in `colored` listing a color change.
ResultsOf(n, colored) ==
    [i \in 1..n |-> [description |-> i, colors |-> i \in colored]]

\* The patterns of colored results tried: the first k or the last k.
ColoredSets(n) ==
    {1..k : k \in 0..n} \cup {(n - k + 1)..n : k \in 0..n}

\* The sort key (bool(len(r.colors)), random()) of a result, and its order.
SortKey(r, rnd) == <<IF r.colors THEN 1 ELSE 0, rnd[r.description]>>
KeyLess(a, b) == a[1] < b[1] \/ (a[1] = b[1] /\ a[2] < b[2])

Without(seq, i) == SubSeq(seq, 1, i - 1) \o SubSeq(seq, i + 1, Len(seq))

\* list.sort(key=..., reverse=True): greatest key first, results of equal
\* key in their original order.
RECURSIVE SortByKeyReversed(_, _)
SortByKeyReversed(seq, rnd) ==
    IF seq = <<>> THEN <<>>
    ELSE LET i == CHOOSE i \in 1..Len(seq) :
                    /\ \A j \in 1..Len(seq) :
                         ~KeyLess(SortKey(seq[i], rnd), SortKey(seq[j], rnd))
                    /\ \A j \in 1..(i - 1) :
                         KeyLess(SortKey(seq[j], rnd), SortKey(seq[i], rnd))
         IN <<seq[i]>> \o SortByKeyReversed(Without(seq, i), rnd)

\* sorted(..., key=str): least description first, stable.
RECURSIVE SortByStr(_)
SortByStr(seq) ==
    IF seq = <<>> THEN <<>>
    ELSE LET i == CHOOSE i \in 1..Len(seq) :
                    /\ \A j \in 1..Len(seq) :
                         seq[i].description <= seq[j].description
                    /\ \A j \in 1..(i - 1) :
                         seq[j].description > seq[i].description
         IN <<seq[i]>> \o SortByStr(Without(seq, i))

\* A pick_clues that keeps every result.
pick_all_clues(results, rnd) == SortByStr(SortByKeyReversed(results, rnd))

\* A pick_clues that slices the results as the database lists them.
pick_first_clues(results, rnd) ==
    SortByStr(SubSeq(results, 1, Min(CLUE_SLICE, Len(results))))

\* ReagentsGame.pick_clues, for the values rnd[i] drawn for the results.
pick_clues(results, rnd) ==
    LET sorted == SortByKeyReversed(results, rnd)
    IN SortByStr(SubSeq(sorted, 1, Min(CLUE_SLICE, Len(sorted))))

\* game.pick_clues(), called once.
PickClues(results, rnd) ==
    /\ ret = NoCall
    /\ ret' = [call |-> "pick_clues", results |-> results,
               value |-> pick_clues(results, rnd)]
    /\ UNCHANGED <<obj, calls>>

CluesNext ==
    /\ \E n \in 0..MaxResults :
         \E colored \in ColoredSets(n), rnd \in [1..n -> RandomValues] :
           PickClues(ResultsOf(n, colored), rnd)
    /\ UNCHANGED <<engineVars, storeVars, cacheVars>>

CluesSpec == Init /\ [][CluesNext]_vars

\* ------------------------------------------------------- text on its own
\* utils.unformat applied to a string, and then to its own result.

\* Strings have at most this many characters.
MaxLen == 2

\* The characters strings are made of.
TextAlphabet == {"A", "a", "E^", "e^", "TM", "o/", "2", "-", "_", " "}

Strings == UNION { [1..n -> TextAlphabet] : n \in 0..MaxLen }

\* The values of the parameter non_word that are tried: the two the games
\* pass, none, and a letter.
NonWordSets == {NON_WORD, DEFAULT_NON_WORD, {}, {"a"}}

\* unformat(string, non_word)
Unformat(string, non_word) ==
    /\ ret = NoCall
    /\ ret' = [call |-> "unformat", pass |-> 1, string |-> string,
               non_word |-> non_word, value |-> unformat(string, non_word)]
    /\ UNCHANGED <<obj, calls>>

\* unformat(previous result, non_word)
UnformatAgain ==
    /\ ret.call = "unformat"
    /\ ret.pass = 1
    /\ ret' = [call |-> "unformat", pass |-> 2, string |-> ret.value,
               non_word |-> ret.non_word,
               value |-> unformat(ret.value, ret.non_word)]
    /\ UNCHANGED <<obj, calls>>

TextNext ==
    \/ /\ \E string \in Strings, non_word \in NonWordSets :
            Unformat(string, non_word)
       /\ UNCHANGED <<engineVars, storeVars, cacheVars>>
    \/ /\ UnformatAgain
       /\ UNCHANGED <<engineVars, storeVars, cacheVars>>

TextSpec == Init /\ [][TextNext]_vars

\* -------------------------------------------------- scoreboard on disk
\* Scoreboard.save and Scoreboard.load on a scoreboard holding any of a few
\* profiles for each player.
StoreSubstances ==
    { <<"2", "C", "-", "B">>, <<"A", "S", "P", "I", "R", "I", "N">> }
StoreBalances == {0, 7}
StoreWins == {0, 1}

StoreProfiles ==
    [balance : StoreBalances,
     found_structure_substances : {PySet(S) : S \in SUBSET StoreSubstances},
     won_structure_games : StoreWins,
     won_reagents_games : StoreWins]

\* The orders in which a set can be iterated.
Orders(S) ==
    {seq \in [1..Cardinality(S) -> S] : \A x \in S : \E i \in DOMAIN seq : seq[i] = x}

\* ScoreboardJSONEncoder.default on a Profile, with the JSON array written
\* for its collection: list(o) in iteration order `order` for a set, the
\* list itself for a list.
EncodeProfile(profile, order) ==
    [__type__ |-> "Profile",
     balance |-> profile.balance,
     found_structure_substances |->
         IF profile.found_structure_substances.type = "set"
         THEN order
         ELSE profile.found_structure_substances.items,
     won_structure_games |-> profile.won_structure_games,
     won_reagents_games |-> profile.won_reagents_games]

\* The iteration orders that can be drawn for the collection of a profile.
OrdersOf(profile) ==
    IF profile.found_structure_substances.type = "set"
    THEN Orders(profile.found_structure_substances.items)
    ELSE {profile.found_structure_substances.items}

\* A Python dict that is not a Profile, and an exception leaving a call.
PyDict(items) == [type |-> "dict", items |-> items]
Raised(exc) == [raised |-> exc]

\* The fields of the Profile dataclass.
ProfileFields == DOMAIN DefaultProfile

\* Profile(**kwargs): the generated __init__ takes the four fields as
\* keywords, each with its default, and raises TypeError for any other
\* keyword.  A JSON array is passed on as the list it was decoded to.
Profile(kwargs) ==
    IF DOMAIN kwargs \subseteq ProfileFields
    THEN [balance |->
              IF "balance" \in DOMAIN kwargs
              THEN kwargs.balance ELSE DefaultProfile.balance,
          found_structure_substances |->
              IF "found_structure_substances" \in DOMAIN kwargs
              THEN PyList(kwargs.found_structure_substances)
              ELSE DefaultProfile.found_structure_substances,
          won_structure_games |->
              IF "won_structure_games" \in DOMAIN kwargs
              THEN kwargs.won_structure_games
              ELSE DefaultProfile.won_structure_games,
          won_reagents_games |->
              IF "won_reagents_games" \in DOMAIN kwargs
              THEN kwargs.won_reagents_games
              ELSE DefaultProfile.won_reagents_games]
    ELSE Raised("TypeError")

\* obj.pop(key, None): the dict without the key.
Pop(o, key) == [k \in DOMAIN o \ {key} |-> o[k]]

\* ScoreboardJSONDecoder.object_hook on a JSON object of the file: the tag
\* is popped; an object that was tagged "Profile" becomes Profile(**obj),
\* any other object is returned as the dict that is left.
object_hook(o) ==
    IF "__type__" \in DOMAIN o /\ o.__type__ = "Profile"
    THEN Profile(Pop(o, "__type__"))
    ELSE PyDict(Pop(o, "__type__"))

\* A file that save() had opened for writing, and so truncated, when the
\* process died: a proper prefix of a JSON document.
TornFile == [exists |-> TRUE, torn |-> TRUE]

\* json.load(file, cls=ScoreboardJSONDecoder): the decoded entries, or the
\* exception of the parser or of the first object_hook call that raises.
json_load(f) ==
    IF f = TornFile
    THEN Raised("JSONDecodeError")
    ELSE LET decoded == [p \in Players |-> object_hook(f.players[p])] IN
         IF \E p \in Players : decoded[p] = Raised("TypeError")
         THEN Raised("TypeError")
         ELSE decoded

\* Scoreboard.save: json.dump(self.players, file, cls=ScoreboardJSONEncoder).
Save(order) ==
    /\ file' = [exists |-> TRUE,
                players |-> [p \in Players |-> EncodeProfile(players[p], order[p])]]
    /\ flushed' = players
    /\ last' = Event("save", "none", None)
    /\ UNCHANGED players

\* The process starts again: GamesCog.__init__ builds a Scoreboard and
\* calls load(), which updates the empty scoreboard with the decoded file,
\* or raises what json.load raises and leaves the scoreboard empty.
Load ==
    /\ file.exists
    /\ LET decoded == json_load(file) IN
         IF "raised" \in DOMAIN decoded
         THEN /\ players' = [p \in Players |-> DefaultProfile]
              /\ last' = Event("load_raised", "none", None)
         ELSE /\ players' = decoded
              /\ last' = Event("load", "none", None)
    /\ UNCHANGED <<file, flushed>>

StoreInit ==
    /\ registry = [c \in Channels |-> None]
    /\ created = 0
    /\ variant = [s \in Sessions |-> "none"]
    /\ channel = [s \in Sessions |-> "none"]
    /\ owner = [s \in Sessions |-> "none"]
    /\ game = [s \in Sessions |-> NoGame]
    /\ tasks = [s \in Sessions |-> {}]
    /\ taskpc = [t \in Tasks |-> "none"]
    /\ cancelled = {}
    /\ startpc = [s \in Sessions |-> "none"]
    /\ outcome = [s \in Sessions |-> "none"]
    /\ players \in [Players -> StoreProfiles]
    /\ last = Event("init", "none", None)
    /\ obj = NoGame
    /\ calls = 0
    /\ ret = NoCall
    /\ file = NoFile
    /\ flushed = NoFile
    /\ schematics = {}

StoreNext ==
    \/ /\ \E order \in [Players -> UNION {OrdersOf(players[p]) : p \in Players}] :
            /\ \A p \in Players : order[p] \in OrdersOf(players[p])
            /\ Save(order)
       /\ UNCHANGED <<registry, sessVars, game, taskVars, startpc, outcome, unitVars, cacheVars>>
    \/ /\ Load
       /\ UNCHANGED <<registry, sessVars, game, taskVars, startpc, outcome, unitVars, cacheVars>>

StoreSpec == StoreInit /\ [][StoreNext]_vars

\* ------------------------------------------------ decoding a file on disk
\* Scoreboard.load on a players.json that holds, for each player, a JSON
\* object of one of a few shapes: what save() writes for a profile, the
\* same without the "__type__" tag or with another tag, with a key that is
\* no field of Profile, or with the balance only.
DiskBalances == {0, 7}

DiskEntries ==
    UNION {
      { [__type__ |-> "Profile", balance |-> b,
         found_structure_substances |-> <<>>,
         won_structure_games |-> 1, won_reagents_games |-> 0],
        [balance |-> b,
         found_structure_substances |-> <<>>,
         won_structure_games |-> 1, won_reagents_games |-> 0],
        [__type__ |-> "Player", balance |-> b,
         found_structure_substances |-> <<>>,
         won_structure_games |-> 1, won_reagents_games |-> 0],
        [__type__ |-> "Profile", balance |-> b,
         found_structure_substances |-> <<>>,
         won_structure_games |-> 1, won_reagents_games |-> 0,
         coins |-> b],
        [__type__ |-> "Profile", balance |-> b] } : b \in DiskBalances }

DiskFiles ==
    { [exists |-> TRUE, players |-> f] : f \in [Players -> DiskEntries] }

DecodeInit ==
    /\ registry = [c \in Channels |-> None]
    /\ created = 0
    /\ variant = [s \in Sessions |-> "none"]
    /\ channel = [s \in Sessions |-> "none"]
    /\ owner = [s \in Sessions |-> "none"]
    /\ game = [s \in Sessions |-> NoGame]
    /\ tasks = [s \in Sessions |-> {}]
    /\ taskpc = [t \in Tasks |-> "none"]
    /\ cancelled = {}
    /\ startpc = [s \in Sessions |-> "none"]
    /\ outcome = [s \in Sessions |-> "none"]
    /\ players = [p \in Players |-> DefaultProfile]
    /\ last = Event("init", "none", None)
    /\ obj = NoGame
    /\ calls = 0
    /\ ret = NoCall
    /\ file \in DiskFiles
    /\ flushed = NoFile
    /\ schematics = {}

DecodeNext ==
    /\ last.op = "init"
    /\ Load
    /\ UNCHANGED <<registry, sessVars, game, taskVars, startpc, outcome, unitVars, cacheVars>>

DecodeSpec == DecodeInit /\ [][DecodeNext]_vars

\* ------------------------------------------------ crashes and restarts
\* The scoreboard over wins, periodic saves and restarts of the process.
\* Of a round only the credit of check_answer is kept, for a structure game
\* won at the first attempt or a reagents game won at the second.
MaxWins == 2

WonGames ==
    { [NewStructureGame(<<"2", "C", "-", "B">>, <<0, 1, 3>>) EXCEPT !.tries = 1],
      [NewReagentsGame(<<"M", "D", "M", "A">>) EXCEPT !.tries = 2] }

\* The process is up: the last load() did not raise.
Up == last.op # "load_raised"

\* check_answer credits player p for the game g.
Win(p, g) ==
    /\ Up
    /\ players[p].won_structure_games < MaxWins
    /\ players' = [players EXCEPT
                     ![p] = Credit(@, IF g.kind = "StructureGame"
                                      THEN "structure" ELSE "reagents", g)]
    /\ last' = Event("win", "none", None)
    /\ UNCHANGED <<file, flushed>>

\* The 60-second loop runs save() to its end.
Flush(order) ==
    /\ Up
    /\ Save(order)

\* The process dies inside save(), after open(..., "w") has truncated the
\* file and before json.dump has written all of it.
CrashInSave ==
    /\ Up
    /\ file' = TornFile
    /\ last' = Event("crash_in_save", "none", None)
    /\ UNCHANGED <<players, flushed>>

\* The state after the first GamesCog.__init__: load() has written the
\* empty scoreboard to the missing file and read it back.
CrashInit ==
    /\ registry = [c \in Channels |-> None]
    /\ created = 0
    /\ variant = [s \in Sessions |-> "none"]
    /\ channel = [s \in Sessions |-> "none"]
    /\ owner = [s \in Sessions |-> "none"]
    /\ game = [s \in Sessions |-> NoGame]
    /\ tasks = [s \in Sessions |-> {}]
    /\ taskpc = [t \in Tasks |-> "none"]
    /\ cancelled = {}
    /\ startpc = [s \in Sessions |-> "none"]
    /\ outcome = [s \in Sessions |-> "none"]
    /\ players = [p \in Players |-> DefaultProfile]
    /\ last = Event("init", "none", None)
    /\ obj = NoGame
    /\ calls = 0
    /\ ret = NoCall
    /\ file = [exists |-> TRUE,
               players |-> [p \in Players |-> EncodeProfile(DefaultProfile, <<>>)]]
    /\ flushed = [p \in Players |-> DefaultProfile]
    /\ schematics = {}

CrashNext ==
    \/ /\ \E p \in Players, g \in WonGames : Win(p, g)
       /\ UNCHANGED <<registry, sessVars, game, taskVars, startpc, outcome, unitVars, cacheVars>>
    \/ /\ \E order \in [Players -> UNION {OrdersOf(players[p]) : p \in Players}] :
            /\ \A p \in Players : order[p] \in OrdersOf(players[p])
            /\ Flush(order)
       /\ UNCHANGED <<registry, sessVars, game, taskVars, startpc, outcome, unitVars, cacheVars>>
    \/ /\ CrashInSave
       /\ UNCHANGED <<registry, sessVars, game, taskVars, startpc, outcome, unitVars, cacheVars>>
    \/ /\ Load
       /\ UNCHANGED <<registry, sessVars, game, taskVars, startpc, outcome, unitVars, cacheVars>>

CrashSpec == CrashInit /\ [][CrashNext]_vars

\* ------------------------------------------------- levels of a profile
\* settings.LEVELS, with the thresholds in coins.
LEVELS ==
    << [threshold |-> 0, name |-> "Beginner"],
       [threshold |-> 420, name |-> "420 chemist"],
       [threshold |-> 1000, name |-> "1k chemist"],
       [threshold |-> 5000, name |-> "5k chemist"],
       [threshold |-> 10000, name |-> "10k chemist"],
       [threshold |-> 20000, name |-> "Walter White"] >>

\* The value of next_level when there is none.
NoLevel == [name |-> "None"]

\* A level that takes the lowest of the thresholds the balance has reached.
level_lowest(balance) ==
    LET reached == {i \in DOMAIN LEVELS : balance >= 2 * LEVELS[i].threshold} IN
    IF reached = {}
    THEN Raised("ValueError")
    ELSE LEVELS[CHOOSE i \in reached :
                  \A j \in reached : LEVELS[i].threshold <= LEVELS[j].threshold]

\* Profile.level for a balance in half coins: max() of the levels whose
\* threshold the balance has reached, by threshold; max() of nothing
\* raises ValueError.
level(balance) ==
    LET reached == {i \in DOMAIN LEVELS : balance >= 2 * LEVELS[i].threshold} IN
    IF reached = {}
    THEN Raised("ValueError")
    ELSE LEVELS[CHOOSE i \in reached :
                  \A j \in reached : LEVELS[j].threshold <= LEVELS[i].threshold]

\* A next level that does not leave out the current one.
next_level_or_same(balance) ==
    LET above == {i \in DOMAIN LEVELS :
                    LEVELS[i].threshold >= level(balance).threshold} IN
    IF above = {}
    THEN NoLevel
    ELSE LEVELS[CHOOSE i \in above :
                  \A j \in above : LEVELS[i].threshold <= LEVELS[j].threshold]

\* Profile.next_level: min() of the levels above the current one, by
\* threshold; None when min() of nothing raises ValueError.
next_level(balance) ==
    LET above == {i \in DOMAIN LEVELS :
                    LEVELS[i].threshold > level(balance).threshold} IN
    IF above = {}
    THEN NoLevel
    ELSE LEVELS[CHOOSE i \in above :
                  \A j \in above : LEVELS[i].threshold <= LEVELS[j].threshold]

\* Profile.level_progress as the fraction num / den of half coins, or the
\* ZeroDivisionError of the division.
level_progress(balance) ==
    IF next_level(balance) = NoLevel
    THEN [num |-> 1, den |-> 1]
    ELSE LET num == balance - 2 * level(balance).threshold
             den == 2 * next_level(balance).threshold
                      - 2 * level(balance).threshold
         IN IF den = 0 THEN Raised("ZeroDivisionError")
            ELSE [num |-> num, den |-> den]

\* 0 <= num / den <= 1 for a divisor that is not 0.
InUnitInterval(progress) ==
    IF progress.den > 0
    THEN 0 <= progress.num /\ progress.num <= progress.den
    ELSE progress.den <= progress.num /\ progress.num <= 0

\* utils.make_progress_bar: the assertion on `progress`, then the image.
make_progress_bar(progress) ==
    IF InUnitInterval(progress) THEN "image" ELSE Raised("AssertionError")

\* Balances in half coins around each threshold, and one of a first win.
LevelBalances ==
    { b \in UNION { {2 * LEVELS[i].threshold - 1, 2 * LEVELS[i].threshold,
                     2 * LEVELS[i].threshold + 1} : i \in DOMAIN LEVELS }
        : b >= 0 } \cup {7}

\* What `/game profile` computes for a profile of the given balance up to
\* the progress bar; an exception raised on the way leaves the command.
ProfileView(balance) ==
    LET progress == level_progress(balance) IN
    [call |-> "profile", balance |-> balance,
     level |-> level(balance),
     next_level |-> next_level(balance),
     level_progress |-> progress,
     progress_bar |-> IF "raised" \in DOMAIN progress THEN progress
                      ELSE make_progress_bar(progress)]

\* `/game profile` for a player whose balance is `balance`.
ProfileCommand(balance) ==
    /\ ret = NoCall
    /\ ret' = ProfileView(balance)
    /\ UNCHANGED <<obj, calls>>

\* `/game profile` again for the same player after the balance has changed
\* to `balance`.
ProfileCommandAgain(balance) ==
    /\ ret # NoCall
    /\ "before" \notin DOMAIN ret
    /\ ret' = [before |-> ret] @@ ProfileView(balance)
    /\ UNCHANGED <<obj, calls>>

ProfileNext ==
    \/ /\ \E balance \in LevelBalances : ProfileCommand(balance)
       /\ UNCHANGED <<engineVars, storeVars, cacheVars>>
    \/ /\ \E balance \in LevelBalances : ProfileCommandAgain(balance)
       /\ UNCHANGED <<engineVars, storeVars, cacheVars>>

ProfileSpec == Init /\ [][ProfileNext]_vars

\* ------------------------------------------- memoized values of a profile
\* The floats next_level_in returns: float("inf"), or a number of half
\* coins.
Infinity == [inf |-> TRUE]
Finite(half_coins) == [inf |-> FALSE, half_coins |-> half_coins]

\* Profile.next_level_in in half coins: the distance to the next threshold,
\* float("inf") when there is no next level.
next_level_in(balance) ==
    IF next_level(balance) = NoLevel
    THEN Infinity
    ELSE Finite(2 * next_level(balance).threshold - balance)

\* The four methods of Profile that memoize_method(("balance",)) decorates.
MemoMethods == {"level", "next_level", "next_level_in", "level_progress"}

\* The value a method computes from the balance without any cache.
Fresh(method, balance) ==
    CASE method = "level" -> level(balance)
      [] method = "next_level" -> next_level(balance)
      [] method = "next_level_in" -> next_level_in(balance)
      [] method = "level_progress" -> level_progress(balance)

\* Balances in half coins: below the second level, on its threshold, and
\* past the last threshold.  Balances are never negative.
MemoBalances == {7, 840, 40000}

\* The `cache = {}` of each decorated function right after the class body
\* has run: one dict per method, shared by all instances.
EmptyCache == [kind |-> "cache",
               level |-> <<>>, next_level |-> <<>>,
               next_level_in |-> <<>>, level_progress |-> <<>>]

\* A cache key made of no attribute at all.
memo_key_of_nothing(balance) == 0

\* key = tuple(map(partial(getattr, instance), attributes)) for
\* attributes = ("balance",).
memo_key(balance) == balance

\* wrapper(instance) given the value `computed` that function(instance)
\* returns and the caches `cache` as the call of the function left them:
\* the value is stored under the key when the key is new, and the value
\* under the key is returned.
wrapper(method, cache, balance, computed) ==
    LET key == memo_key(balance)
        after == IF key \in DOMAIN cache[method]
                 THEN cache
                 ELSE [cache EXCEPT ![method] = @ @@ (key :> computed)]
    IN [value |-> after[method][key], cache |-> after]

\* Whether wrapper finds the key and so does not call the function.
Hit(method, cache, balance) == memo_key(balance) \in DOMAIN cache[method]

\* self.level through the cache.
memo_level(cache, balance) ==
    IF Hit("level", cache, balance)
    THEN wrapper("level", cache, balance, NoLevel)
    ELSE wrapper("level", cache, balance, level(balance))

\* self.next_level through the cache; its body reads self.level.
memo_next_level(cache, balance) ==
    IF Hit("next_level", cache, balance)
    THEN wrapper("next_level", cache, balance, NoLevel)
    ELSE LET lvl == memo_level(cache, balance)
             above == {i \in DOMAIN LEVELS :
                         LEVELS[i].threshold > lvl.value.threshold}
             computed ==
                 IF above = {}
                 THEN NoLevel
                 ELSE LEVELS[CHOOSE i \in above :
                        \A j \in above :
                           LEVELS[i].threshold <= LEVELS[j].threshold]
         IN wrapper("next_level", lvl.cache, balance, computed)

\* self.next_level_in through the cache; its body reads self.next_level
\* once or twice, which is one call of the function at most.
memo_next_level_in(cache, balance) ==
    IF Hit("next_level_in", cache, balance)
    THEN wrapper("next_level_in", cache, balance, NoLevel)
    ELSE LET nxt == memo_next_level(cache, balance)
             computed == IF nxt.value = NoLevel
                         THEN Infinity
                         ELSE Finite(2 * nxt.value.threshold - balance)
         IN wrapper("next_level_in", nxt.cache, balance, computed)

\* self.level_progress through the cache; its body reads self.next_level
\* and self.level.
memo_level_progress(cache, balance) ==
    IF Hit("level_progress", cache, balance)
    THEN wrapper("level_progress", cache, balance, NoLevel)
    ELSE LET nxt == memo_next_level(cache, balance)
             lvl == memo_level(nxt.cache, balance)
             computed ==
                 IF nxt.value = NoLevel
                 THEN [num |-> 1, den |-> 1]
                 ELSE LET num == balance - 2 * lvl.value.threshold
                          den == 2 * nxt.value.threshold
                                   - 2 * lvl.value.threshold
                      IN IF den = 0 THEN Raised("ZeroDivisionError")
                         ELSE [num |-> num, den |-> den]
         IN wrapper("level_progress", lvl.cache, balance, computed)

\* The property `method` of a profile of the given balance.
Memoized(method, cache, balance) ==
    CASE method = "level" -> memo_level(cache, balance)
      [] method = "next_level" -> memo_next_level(cache, balance)
      [] method = "next_level_in" -> memo_next_level_in(cache, balance)
      [] method = "level_progress" -> memo_level_progress(cache, balance)

\* Some code reads the property `method` of the profile of player p.
ReadProperty(p, method) ==
    LET read == Memoized(method, obj, players[p].balance) IN
    /\ obj.kind = "cache"
    /\ obj' = read.cache
    /\ ret' = [call |-> "read", method |-> method, instance |-> p,
               hit |-> Hit(method, obj, players[p].balance),
               value |-> read.value]
    /\ UNCHANGED <<players, calls>>

\* The balance of the profile of player p changes to `balance`: a reward
\* is credited, or the scoreboard is loaded.
ChangeBalance(p, balance) ==
    /\ obj.kind = "cache"
    /\ players[p].balance # balance
    /\ players' = [players EXCEPT ![p].balance = balance]
    /\ UNCHANGED <<obj, calls, ret>>

\* The state once the Profile class is defined and the scoreboard holds a
\* profile for each player.
MemoInit ==
    /\ registry = [c \in Channels |-> None]
    /\ created = 0
    /\ variant = [s \in Sessions |-> "none"]
    /\ channel = [s \in Sessions |-> "none"]
    /\ owner = [s \in Sessions |-> "none"]
    /\ game = [s \in Sessions |-> NoGame]
    /\ tasks = [s \in Sessions |-> {}]
    /\ taskpc = [t \in Tasks |-> "none"]
    /\ cancelled = {}
    /\ startpc = [s \in Sessions |-> "none"]
    /\ outcome = [s \in Sessions |-> "none"]
    /\ players \in [Players -> {[DefaultProfile EXCEPT !.balance = b] :
                                   b \in MemoBalances}]
    /\ last = Event("init", "none", None)
    /\ obj = EmptyCache
    /\ calls = 0
    /\ ret = NoCall
    /\ file = NoFile
    /\ flushed = NoFile
    /\ schematics = {}

MemoNext ==
    \/ /\ \E p \in Players, method \in MemoMethods : ReadProperty(p, method)
       /\ UNCHANGED <<registry, sessVars, game, taskVars, startpc, outcome,
                      last, storeVars, cacheVars>>
    \/ /\ \E p \in Players, balance \in MemoBalances : ChangeBalance(p, balance)
       /\ UNCHANGED <<registry, sessVars, game, taskVars, startpc, outcome,
                      last, storeVars, cacheVars>>

MemoSpec == MemoInit /\ [][MemoNext]_vars

\* ------------------------------------------------- the throttled client
\* The number of get() calls made on one client.
MaxGets == 4

Callers == 1..MaxGets

\* ThrottledAsyncClient.__init__: a BoundedSemaphore(1), no call yet and no
\* wait_and_release task.
NewClient ==
    [kind |-> "client", semaphore |-> 1,
     pc |-> [k \in Callers |-> "idle"], cooling |-> 0]

\* Call k enters get(): semaphore.acquire() takes the semaphore at once
\* when it is free and nobody waits for it, and suspends otherwise.
Get(k) ==
    /\ obj.kind = "client"
    /\ obj.pc[k] = "idle"
    /\ calls' = calls + 1
    /\ IF obj.semaphore > 0 /\ \A j \in Callers : obj.pc[j] # "waiting"
       THEN obj' = [obj EXCEPT !.semaphore = @ - 1, !.pc[k] = "request"]
       ELSE obj' = [obj EXCEPT !.pc[k] = "waiting"]
    /\ UNCHANGED ret

\* A call suspended in semaphore.acquire() is woken up and takes the
\* semaphore.
Acquire(k) ==
    /\ obj.kind = "client"
    /\ obj.pc[k] = "waiting"
    /\ obj.semaphore > 0
    /\ obj' = [obj EXCEPT !.semaphore = @ - 1, !.pc[k] = "request"]
    /\ UNCHANGED <<calls, ret>>

\* super().get() returns a response: get() creates the wait_and_release
\* task and returns.
RequestReturns(k) ==
    /\ obj.kind = "client"
    /\ obj.pc[k] = "request"
    /\ obj' = [obj EXCEPT !.cooling = @ + 1, !.pc[k] = "returned"]
    /\ UNCHANGED <<calls, ret>>

\* super().get() raises (a timeout, an HTTP error, a cancellation): the
\* exception leaves get() at that line.
RequestRaises(k) ==
    /\ obj.kind = "client"
    /\ obj.pc[k] = "request"
    /\ obj' = [obj EXCEPT !.pc[k] = "raised"]
    /\ UNCHANGED <<calls, ret>>

\* wait_and_release: the sleep of `cooldown` seconds is over and the
\* semaphore is released.
WaitAndRelease ==
    /\ obj.kind = "client"
    /\ obj.cooling > 0
    /\ obj' = [obj EXCEPT !.cooling = @ - 1, !.semaphore = @ + 1]
    /\ UNCHANGED <<calls, ret>>

\* The state once a client has been constructed.
ThrottleInit ==
    /\ registry = [c \in Channels |-> None]
    /\ created = 0
    /\ variant = [s \in Sessions |-> "none"]
    /\ channel = [s \in Sessions |-> "none"]
    /\ owner = [s \in Sessions |-> "none"]
    /\ game = [s \in Sessions |-> NoGame]
    /\ tasks = [s \in Sessions |-> {}]
    /\ taskpc = [t \in Tasks |-> "none"]
    /\ cancelled = {}
    /\ startpc = [s \in Sessions |-> "none"]
    /\ outcome = [s \in Sessions |-> "none"]
    /\ players = [p \in Players |-> DefaultProfile]
    /\ last = Event("init", "none", None)
    /\ obj = NewClient
    /\ calls = 0
    /\ ret = NoCall
    /\ file = NoFile
    /\ flushed = NoFile
    /\ schematics = {}

ThrottleNext ==
    \/ /\ \E k \in Callers : Get(k)
       /\ UNCHANGED <<engineVars, storeVars, cacheVars>>
    \/ /\ \E k \in Callers : Acquire(k)
       /\ UNCHANGED <<engineVars, storeVars, cacheVars>>
    \/ /\ \E k \in Callers : RequestReturns(k)
       /\ UNCHANGED <<engineVars, storeVars, cacheVars>>
    \/ /\ \E k \in Callers : RequestRaises(k)
       /\ UNCHANGED <<engineVars, storeVars, cacheVars>>
    \/ /\ WaitAndRelease
       /\ UNCHANGED <<engineVars, storeVars, cacheVars>>

\* The event loop runs every task that can run: a request comes back, a
\* sleep ends, and a waiter is woken up when the semaphore is free.
ThrottleSpec ==
    /\ ThrottleInit
    /\ [][ThrottleNext]_vars
    /\ \A k \in Callers :
          /\ SF_vars(Acquire(k)
                       /\ UNCHANGED <<engineVars, storeVars, cacheVars>>)
          /\ WF_vars((RequestReturns(k) \/ RequestRaises(k))
                       /\ UNCHANGED <<engineVars, storeVars, cacheVars>>)
    /\ WF_vars(WaitAndRelease
                 /\ UNCHANGED <<engineVars, storeVars, cacheVars>>)

\* ------------------------------------------------------------ properties
\* The running games constructed so far, those the registry holds, and
\* those on which end() has not been called yet.
Constructed(s) == s \in 1..created
Registered(s) == Constructed(s) /\ registry[channel[s]] = s
Live(s) == Constructed(s) /\ outcome[s] = "none"

\* The stretches in which end() is called on a running game.
EndOps == {"win", "manual_end", "timeout_end"}

\* Everything but the record of the last stretch.
programVars == <<registry, created, variant, channel, owner, game, tasks,
                 taskpc, cancelled, startpc, outcome, players, schematics>>

\* C1: every running game on which end() was not called is the one the
\* registry holds for its channel, so a channel has at most one live game
\* of either variant; and a start is rejected exactly when the channel holds
\* a game, so of two starts with no end in between one registers and the
\* other is rejected.
C1_OneLiveSessionPerChannel ==
    /\ \A s \in Sessions : Live(s) => Registered(s)
    /\ \A s1, s2 \in Sessions :
         Live(s1) /\ Live(s2) /\ channel[s1] = channel[s2] => s1 = s2
    /\ last.op = "start" => \A s \in Sessions : Live(s) /\ channel[s] = last.chan => s = last.sess
    /\ last.op = "start_rejected" => registry[last.chan] # None

\* C1 witness: a second start was rejected while the handler of the first
\* one is still suspended in start().
C1_Witness ==
    /\ last.op = "start_rejected"
    /\ \E s \in Sessions : Registered(s) /\ channel[s] = last.chan /\ startpc[s] = "send"

\* C2: a start in a channel whose registry entry holds a game is rejected
\* and changes nothing: registry, games, task sets and profiles are the same
\* after it.
C2_RejectedStartChangesNothing ==
    [][ (last'.op \in {"start", "start_rejected"} /\ registry[last'.chan] # None)
          => (last'.op = "start_rejected" /\ UNCHANGED programVars) ]_vars

\* C2 witness: a start was rejected in a channel whose game has a task
\* pending and a guess counted.
C2_Witness ==
    /\ last.op = "start_rejected"
    /\ \E s \in Sessions :
         /\ Registered(s) /\ channel[s] = last.chan
         /\ game[s].tries > 0
         /\ tasks[s] # {}

\* C3: end() on a running game leaves the registry entry of every other
\* running game in place and requests no cancellation of their tasks.
C3_StaleEndKeepsReplacement ==
    [][ last'.op \in EndOps =>
          \A s \in Sessions :
            (Registered(s) /\ s # last'.sess) =>
               /\ registry'[channel[s]] = s
               /\ tasks[s] \cap cancelled' = tasks[s] \cap cancelled ]_vars

\* C3 witness: end() ran on a game that had been ended and replaced in its
\* channel by a game that is still registered with its task pending.
C3_Witness ==
    /\ last.op = "timeout_end"
    /\ \E s \in Sessions :
         /\ s # last.sess
         /\ channel[s] = last.chan
         /\ Registered(s)
         /\ tasks[s] # {} /\ tasks[s] \cap cancelled = {}

\* C4: a running game that is not in the registry has no task that is
\* pending without a cancellation requested, and no task is created for a
\* game on which end() was called.
C4_NoOrphanTask ==
    /\ \A s \in Sessions :
         Constructed(s) /\ ~Registered(s) => tasks[s] \subseteq cancelled
    /\ last.op = "create_task" => outcome[last.sess] = "none"

\* C5: once a running game is out of the registry its game object is not
\* changed any more, and the stretches of its tasks change no profile.
C5_NoMutationAfterRemoval ==
    [][ \A s \in Sessions :
          (Constructed(s) /\ ~Registered(s)) =>
             /\ game'[s] = game[s]
             /\ (last'.sess = s /\ last'.op \in {"clue", "exhausted", "timer", "announce", "timeout_end"})
                   => players' = players ]_vars

\* C6: a game that was won has not had its timeout message sent, and a game
\* whose timeout message is sent is not won afterwards.
C6_WinOrTimeoutNotBoth ==
    \A s \in Sessions : ~(outcome[s] = "won" /\ taskpc[s] = "send")

\* C7: a reagents game whose timeout task has fired and finished was ended
\* by it, unless a guess or `/game end` ended it: it is out of the registry
\* with no task left.
C7_ReagentsTimesOut ==
    \A s \in Sessions :
      (variant[s] = "reagents" /\ taskpc[s] = "done") =>
         (outcome[s] # "none" /\ ~Registered(s) /\ tasks[s] = {})

\* C8: a registered running game always has its start() or one of its tasks
\* pending, so that something is left to end it when no guess and no
\* `/game end` comes.
C8_RegisteredGameCanStillEnd ==
    \A s \in Sessions :
      Registered(s) => (startpc[s] = "send" \/ tasks[s] # {})

\* C9: no termination path loses its end-of-round message to a failed
\* lookup, and no timeout task dies of one before it ends the game.
C9_LookupFailureIsHarmless ==
    /\ last.msg # "failed"
    /\ last.op # "task_failed"

\* end() called once more on running game s: the registry, the task sets
\* and the profiles it leaves.
EndAgain(s) ==
    [registry |-> Unregister(s), tasks |-> tasks, players |-> players]

\* C10: on a running game that end() was already called on, a further
\* end() leaves the registry, every task set and every profile as they are.
C10_EndIsIdempotent ==
    \A s \in Sessions :
      (Constructed(s) /\ outcome[s] # "none") =>
         EndAgain(s) = [registry |-> registry, tasks |-> tasks, players |-> players]

\* C10 witness: end() ran a second time on a game that had been won, while
\* another game was registered in the channel.
C10_Witness ==
    /\ last.op = "timeout_end"
    /\ outcome[last.sess] = "won"
    /\ registry[last.chan] \notin {None, last.sess}

\* The guessable characters of a name, counted from the name itself.
Guessable(substance) ==
    Cardinality({i \in 1..Len(substance) : substance[i] \notin NON_WORD})

\* ceil(a / b) for b > 0.
CeilDiv(a, b) == (a + b - 1) \div b

Range(seq) == {seq[i] : i \in 1..Len(seq)}

\* C11: after each get_clue() call the hidden positions are a subset of
\* those before it, fewer when there were some; and with L guessable
\* characters none is left once ceil(L / max(1, L div 4)) calls were made,
\* which is at most L calls.
C11_HiddenSetShrinksToEmpty ==
    obj.kind = "StructureGame" =>
      LET L == Guessable(obj.substance)
          bound == CeilDiv(L, Max(1, L \div 4))
      IN /\ bound <= L
         /\ calls >= bound => obj.secret_chars = <<>>
         /\ ret.call = "get_clue" =>
              /\ Range(obj.secret_chars) \subseteq Range(ret.before)
              /\ ret.before # <<>> => Len(obj.secret_chars) < Len(ret.before)

\* C11 witness: the last of ceil(9 / 2) = 5 calls emptied a hidden set of
\* nine positions that still held one.
C11_Witness ==
    /\ obj.kind = "StructureGame"
    /\ Guessable(obj.substance) = 9
    /\ calls = 5
    /\ ret.call = "get_clue"
    /\ Len(ret.before) = 1
    /\ obj.secret_chars = <<>>

\* C12: a structure game whose hidden set was emptied by get_clue() is not
\* waiting for another clue (get_clue is not called again and no clue
\* message follows), and once its send_clue task is over the game has been
\* ended.
C12_ExhaustionEndsTheRound ==
    \A s \in Sessions :
      (variant[s] = "structure" /\ game[s].secret_chars = <<>>) =>
         /\ taskpc[s] # "sleep"
         /\ ~(last.op = "clue" /\ last.sess = s)
         /\ taskpc[s] = "done" => outcome[s] # "none"

\* The step in which check_answer accepts a guess on running game s, and
\* the half coins the step adds to the balance of player p.
Won(s) == outcome[s] = "none" /\ outcome'[s] = "won"
Gain(p) == players'[p].balance - players[p].balance

\* The step credits exactly `amount` half coins to one player and changes
\* no balance of anyone else.
CreditsOnePlayer(amount) ==
    \E p \in Players :
      /\ Gain(p) = amount
      /\ \A q \in Players \ {p} : Gain(q) = 0

\* C13: a won structure game credits its winner the original number of
\* guessable characters (guess_len), in full when the winning guess was the
\* first attempt and by half otherwise, whatever was revealed before.
C13_RewardIsOriginalHiddenSize ==
    [][ \A s \in Sessions :
          (variant[s] = "structure" /\ Won(s)) =>
             CreditsOnePlayer(IF game'[s].tries = 1
                              THEN 2 * game[s].guess_len
                              ELSE game[s].guess_len) ]_vars

\* C14: on a structure game on which get_clue() was not called yet, with H
\* guessable characters, the reward after the first is_correct call is H
\* and after any later one H / 2 (2 * H and H half coins).
C14_FirstTryBonus ==
    (obj.kind = "StructureGame" /\ calls = 0 /\ obj.tries >= 1) =>
       /\ reward(obj) = IF obj.tries = 1
                        THEN 2 * Guessable(obj.substance)
                        ELSE Guessable(obj.substance)
       /\ ret.call = "reward" => ret.value = reward(obj)

\* C14 witness: the reward was read after a correct second guess on a
\* fresh game of seven guessable characters, and is 3.5.
C14_Witness ==
    /\ obj.kind = "StructureGame"
    /\ calls = 0
    /\ obj.tries = 2
    /\ Guessable(obj.substance) = 7
    /\ ret.call = "reward"
    /\ ret.value = 7

\* The parts of the ASPIRIN round that do not depend on the reward: the
\* start registers a running game for the channel, and a wrong guess made
\* when no attempt was counted yet leaves one attempt counted and the game
\* registered.
ScenarioStartRegisters ==
    last.op = "start" => registry[last.chan] = last.sess

ScenarioFirstWrongGuess ==
    \A s \in Sessions :
      (last'.op = "wrong_guess" /\ last'.sess = s /\ game[s].tries = 0) =>
         /\ game'[s].tries = 1
         /\ registry'[channel[s]] = s

\* The guess accepted after one wrong guess, with no clue revealed in
\* between, ends the game, empties the registry entry of its channel and
\* credits `amount` half coins to the guesser.
ScenarioSecondGuessWins(amount) ==
    \A s \in Sessions :
      (Won(s) /\ game[s].tries = 1
              /\ Len(game[s].secret_chars) = game[s].guess_len) =>
         /\ last'.op = "win" /\ last'.sess = s
         /\ registry'[channel[s]] = None
         /\ CreditsOnePlayer(amount)

\* C15 as stated: after the wrong guess "aceta", the guess "Aspirin!" wins
\* the round and is credited the total number of hidden letters, 7.
C15_ScenarioFullReward ==
    /\ []ScenarioStartRegisters
    /\ [][ScenarioFirstWrongGuess]_vars
    /\ [][ScenarioSecondGuessWins(2 * Len(ScenarioSecret))]_vars

\* C15 amended: after the wrong guess "aceta", the guess "Aspirin!" wins
\* the round and, being the second attempt, is credited half the number of
\* hidden letters, 3.5.
C15_ScenarioHalfReward ==
    /\ []ScenarioStartRegisters
    /\ [][ScenarioFirstWrongGuess]_vars
    /\ [][ScenarioSecondGuessWins(Len(ScenarioSecret))]_vars

\* C15 witness: the round was won at the second attempt with every letter
\* still hidden; the registry entry is gone and a player holds 3.5 coins.
C15_Witness ==
    /\ last.op = "win"
    /\ game[last.sess].tries = 2
    /\ Len(game[last.sess].secret_chars) = 7
    /\ registry[last.chan] = None
    /\ \E p \in Players : players[p].balance = 7

\* C16: a won reagents game credits its winner 50 when the winning guess
\* was the first attempt made on the game, and 25 otherwise (100 and 50
\* half coins), and credits nobody else.
C16_ReagentsReward ==
    [][ \A s \in Sessions :
          (variant[s] = "reagents" /\ Won(s)) =>
             CreditsOnePlayer(IF game[s].tries = 0 THEN 2 * 50 ELSE 2 * 25) ]_vars

\* C16 witness: a reagents game was won at the second attempt by a player
\* who had nothing and now holds 25.
C16_Witness ==
    /\ last.op = "win"
    /\ variant[last.sess] = "reagents"
    /\ game[last.sess].tries = 2
    /\ \E p \in Players : players[p].balance = 2 * 25

\* C17: pick_clues() returns at most 9 clues, each of them a result of the
\* substance and no result twice, however many results the substance has.
C17_AtMostNineDistinctClues ==
    ret.call = "pick_clues" =>
       /\ Len(ret.value) <= 9
       /\ \A i \in 1..Len(ret.value) : ret.value[i] \in Range(ret.results)
       /\ \A i, j \in 1..Len(ret.value) :
            ret.value[i] = ret.value[j] => i = j

\* C17 witness: nine clues were picked for a substance with ten results.
C17_Witness ==
    /\ ret.call = "pick_clues"
    /\ Len(ret.results) = 10
    /\ Len(ret.value) = 9

\* C18: unformat applied to a result of unformat, with the same non_word,
\* returns that result unchanged.
C18_UnformatIsIdempotent ==
    (ret.call = "unformat" /\ ret.pass = 2) => ret.value = ret.string

\* The separator characters of the variant of game object g.
SeparatorsOf(g) ==
    IF g.kind = "StructureGame" THEN NON_WORD ELSE DEFAULT_NON_WORD

\* Letters that differ only in case or accent.
LetterClasses ==
    { {"A", "a"}, {"B", "b"}, {"C", "c"}, {"D", "d"},
      {"E", "e", "E^", "e^"}, {"I", "i"}, {"M", "m"}, {"N", "n"},
      {"P", "p"}, {"R", "r"}, {"S", "s"}, {"T", "t"} }

SameLetter(a, b) ==
    a = b \/ \E class \in LetterClasses : a \in class /\ b \in class

\* Strings a and b differ only in case, accents and the separators `sep`.
SameName(a, b, sep) ==
    LET x == Strip(a, sep)
        y == Strip(b, sep)
    IN /\ Len(x) = Len(y)
       /\ \A i \in 1..Len(x) : SameLetter(x[i], y[i])

\* C19: is_correct(guess) adds exactly one to tries and returns true
\* exactly when the unformatted name is a substring of the unformatted
\* guess; a guess that is the name up to case, accents and separators is
\* therefore accepted.
C19_IsCorrectNormalizes ==
    ret.call = "is_correct" =>
       /\ obj.tries = ret.before + 1
       /\ ret.value = IsSubstring(unformat(obj.substance, SeparatorsOf(obj)),
                                  unformat(ret.guess, SeparatorsOf(obj)))
       /\ SameName(ret.guess, obj.substance, SeparatorsOf(obj)) => ret.value

\* C19 witness: each variant accepted a guess that is the name in another
\* case, with an accent or with another separator.
C19_Witness ==
    /\ ret.call = "is_correct"
    /\ ret.guess \in { <<"p", "i", "r", "a", "c", "e^", "t", "a", "m">>,
                       <<"2", "c", "_", "b">> }
    /\ SameName(ret.guess, obj.substance, SeparatorsOf(obj))
    /\ ret.value
    /\ obj.tries = 3

\* The elements of a collection of either type.
Elements(coll) == IF coll.type = "set" THEN coll.items ELSE Range(coll.items)

\* C20: what load() puts in the scoreboard after a save() of typed
\* profiles is, for each player, a profile with the same balance and win
\* counters and with a found-substances attribute that is a set equal to
\* the saved one.
C20_ScoreboardRoundTrips ==
    (last.op = "load"
       /\ \A p \in Players : flushed[p].found_structure_substances.type = "set") =>
       \A p \in Players :
         /\ DOMAIN players[p] = DOMAIN DefaultProfile
         /\ players[p].balance = flushed[p].balance
         /\ players[p].won_structure_games = flushed[p].won_structure_games
         /\ players[p].won_reagents_games = flushed[p].won_reagents_games
         /\ players[p].found_structure_substances.type = "set"
         /\ Elements(players[p].found_structure_substances)
              = Elements(flushed[p].found_structure_substances)

\* A JSON object that object_hook can make a Profile of: it carries the
\* "Profile" tag and no key that is not a field; and a scoreboard entry
\* that is a Profile object.
Recognized(o) ==
    /\ "__type__" \in DOMAIN o
    /\ o.__type__ = "Profile"
    /\ DOMAIN o \ {"__type__"} \subseteq ProfileFields
IsProfile(x) == DOMAIN x = ProfileFields

\* C21: when the file holds an entry that cannot be recognized as a
\* profile, load() raises; whenever load() returns, every entry of the
\* scoreboard is a Profile object made of a recognized entry, never a bare
\* mapping.
C21_DecodingFailsLoudly ==
    /\ (last.op \in {"load", "load_raised"}
          /\ \E p \in Players : ~Recognized(file.players[p])) =>
         last.op = "load_raised"
    /\ last.op = "load" => \A p \in Players : IsProfile(players[p])

\* C22: `/game end` in a channel that holds a running game ends that game
\* (end() is called on it: it leaves the registry and each of its tasks
\* has a cancellation requested) exactly when the requester owns the game
\* or may manage messages, and then credits nothing; from anyone else it
\* is refused and changes nothing of the registry, the tasks, the games
\* and the scoreboard.
C22_EndNeedsOwnerOrPermission ==
    [][\A c \in Channels, p \in Players, manage_messages \in BOOLEAN :
         LET s == registry[c] IN
         (s # None /\ EndCommand(c, p, manage_messages)) =>
            IF p = owner[s] \/ manage_messages
            THEN /\ last'.op = "manual_end"
                 /\ last'.sess = s
                 /\ registry'[c] = None
                 /\ outcome'[s] # "none"
                 /\ tasks[s] \subseteq cancelled'
                 /\ players' = players
                 /\ game' = game
            ELSE /\ last'.op = "end_refused"
                 /\ UNCHANGED programVars]_vars

\* C22 witness: a player who does not own the running game and may not
\* manage messages asked to end it while its task was waiting, and the game
\* is still registered with its task not cancelled.
C22_Witness ==
    /\ last.op = "end_refused"
    /\ registry[last.chan] = last.sess
    /\ outcome[last.sess] = "none"
    /\ tasks[last.sess] # {}
    /\ tasks[last.sess] \cap cancelled = {}

\* C23: while the schematic registry is empty, `/game structure` is
\* answered with the warming-up message and changes nothing of the
\* registry of running games, the games, the tasks and the scoreboard; no
\* step constructs a structure game then, and every structure game that
\* exists was constructed from a filled registry.
C23_ColdStartCreatesNoSession ==
    /\ [][\A c \in Channels, p \in Players :
            (schematics = {} /\ StructureCommand(c, p)) =>
               /\ last'.op = "start_not_ready"
               /\ UNCHANGED programVars]_vars
    /\ [][(schematics = {} /\ created' # created) =>
             variant'[created'] # "structure"]_vars
    /\ [](\A s \in Sessions :
            (Constructed(s) /\ variant[s] = "structure") => schematics # {})

\* C23 witness: `/game structure` was answered with the warming-up message
\* in a channel without a game, the registry being empty and no running
\* game constructed.
C23_Witness ==
    /\ last.op = "start_not_ready"
    /\ schematics = {}
    /\ registry[last.chan] = None
    /\ created = 0
    /\ \A p \in Players : players[p] = DefaultProfile

\* C24: a step taken for a command, a button or a message of one channel,
\* or by a task of a game of that channel, leaves every running game of
\* another channel as it was: the registry entry of its channel, its game
\* object (attempt counter, hidden letters), its task set, where its task
\* is suspended, whether a cancellation was requested for it and whether
\* end() was called on it.
C24_ChannelsAreIsolated ==
    [][\A s \in Sessions :
         (Constructed(s) /\ last'.chan \in Channels /\ channel[s] # last'.chan) =>
            /\ registry'[channel[s]] = registry[channel[s]]
            /\ game'[s] = game[s]
            /\ tasks'[s] = tasks[s]
            /\ taskpc'[s] = taskpc[s]
            /\ (s \in cancelled') = (s \in cancelled)
            /\ outcome'[s] = outcome[s]]_vars

\* C24 witness: a guess won the game of one channel while the other
\* channel holds a registered game with a guess counted and its task
\* waiting.
C24_Witness ==
    /\ last.op = "win"
    /\ \E s \in Sessions :
         /\ Registered(s)
         /\ channel[s] # last.chan
         /\ game[s].tries > 0
         /\ tasks[s] # {} /\ tasks[s] \cap cancelled = {}

C26_LevelIsMonotonic ==
    ret.call = "profile" =>
       /\ \E i \in DOMAIN LEVELS : ret.level = LEVELS[i]
       /\ 2 * ret.level.threshold <= ret.balance
       /\ \A i \in DOMAIN LEVELS :
            2 * LEVELS[i].threshold <= ret.balance =>
               LEVELS[i].threshold <= ret.level.threshold
       /\ ("before" \in DOMAIN ret /\ ret.before.balance <= ret.balance) =>
            ret.before.level.threshold <= ret.level.threshold

\* C26 witness: the balance went from just below a threshold to the
\* threshold and the level went up with it.
C26_Witness ==
    /\ ret.call = "profile"
    /\ "before" \in DOMAIN ret
    /\ ret.before.balance = 2 * 420 - 1
    /\ ret.balance = 2 * 420
    /\ ret.before.level.threshold = 0
    /\ ret.level.threshold = 420

\* C27: for a balance that is not negative, level_progress is a value of
\* [0, 1], it is 1 when there is no higher level, and make_progress_bar
\* returns the image without failing its assertion.
C27_ProgressInUnitInterval ==
    ret.call = "profile" =>
       /\ "raised" \notin DOMAIN ret.level_progress
       /\ InUnitInterval(ret.level_progress)
       /\ ret.next_level = NoLevel =>
            ret.level_progress.num = ret.level_progress.den
       /\ ret.progress_bar = "image"

\* C27 witness: a profile was displayed half a coin below a threshold,
\* with a progress just under 1, and another at the last threshold.
C27_Witness ==
    /\ ret.call = "profile"
    /\ "before" \in DOMAIN ret
    /\ ret.before.level_progress.num + 1 = ret.before.level_progress.den
    /\ ret.next_level = NoLevel
    /\ ret.progress_bar = "image"

\* C28: after a restart at any moment, the scoreboard that load() yields
\* holds for every player the balance, the win counters and the found
\* substances that the last completed save() wrote.
C28_CrashLosesAtMostOneInterval ==
    last.op \in {"load", "load_raised"} =>
       \A p \in Players :
         /\ IsProfile(players[p])
         /\ players[p].balance = flushed[p].balance
         /\ players[p].won_structure_games = flushed[p].won_structure_games
         /\ players[p].won_reagents_games = flushed[p].won_reagents_games
         /\ Elements(players[p].found_structure_substances)
              = Elements(flushed[p].found_structure_substances)

\* C29: the "Play again" button of a game on which end() was called goes
\* through the guard of start().  When the registry holds no game for the
\* channel it constructs and registers a running game of the same class in
\* that channel, owned by the player who pressed the button, with a new
\* game object (no attempt counted, nothing revealed) and the scoreboard
\* as it is; when the registry holds a game, it is rejected and changes
\* nothing.
C29_ReplayIsAStart ==
    [][\A s \in Sessions, p \in Players :
         (/\ outcome[s] # "none"
          /\ last'.op \in {"start", "start_rejected"}
          /\ last'.chan = channel[s]
          /\ Replay(s, p)) =>
            IF registry[channel[s]] = None
            THEN /\ last'.op = "start"
                 /\ created' = created + 1
                 /\ registry'[channel[s]] = created'
                 /\ variant'[created'] = variant[s]
                 /\ channel'[created'] = channel[s]
                 /\ owner'[created'] = p
                 /\ game'[created'] \in NewGames(variant[s])
                 /\ game'[created'].tries = 0
                 /\ outcome'[created'] = "none"
                 /\ players' = players
            ELSE /\ last'.op = "start_rejected"
                 /\ UNCHANGED programVars]_vars

\* C29 witness: a game with a guess counted was ended and a game of the
\* same class, with no guess counted, is registered in its channel for
\* another player.
C29_Witness ==
    /\ last.op = "start"
    /\ registry[last.chan] = last.sess
    /\ game[last.sess].tries = 0
    /\ \E s \in Sessions :
         /\ s < last.sess
         /\ outcome[s] # "none"
         /\ game[s].tries > 0
         /\ variant[s] = variant[last.sess]
         /\ channel[s] = channel[last.sess]
         /\ owner[s] # owner[last.sess]

\* C30: the task set of a running game holds exactly the tasks created
\* for it that have not finished; a task leaves the set only in the step
\* in which it finishes, and it is in the set when it finishes, so the
\* remove() of its done callback finds it; and once end() was called on a
\* running game its task set becomes empty.
C30_TaskSetTracksUnfinishedTasks ==
    /\ [](\A t \in Tasks : (t \in tasks[GameOf(t)]) = Suspended(t))
    /\ [][\A t \in Tasks :
            /\ (taskpc[t] # "done" /\ taskpc'[t] = "done") =>
                 /\ t \in tasks[GameOf(t)]
                 /\ t \notin tasks'[GameOf(t)]
            /\ (t \in tasks[GameOf(t)] /\ t \notin tasks'[GameOf(t)]) =>
                 taskpc'[t] = "done"
            /\ taskpc[t] = "done" => taskpc'[t] = "done"]_vars
    /\ \A s \in Sessions : (outcome[s] # "none") ~> (tasks[s] = {})

\* C30 witness: end() was called on a running game whose task was waiting,
\* the cancellation was delivered and the task set is empty.
C30_Witness ==
    /\ last.op = "task_cancelled"
    /\ outcome[last.sess] = "manual"
    /\ taskpc[last.sess] = "done"
    /\ tasks[last.sess] = {}

\* C31: a get_clue() call made with h positions hidden removes
\* max(1, h div 4) of them, or all h when there are fewer, and what stays
\* hidden is the front of the shuffled list, in its order.
C31_ClueRemovesQuarterOfHidden ==
    (obj.kind = "StructureGame" /\ ret.call = "get_clue") =>
       LET h == Len(ret.before)
           n == Min(h, Max(1, h \div 4))
       IN obj.secret_chars = SubSeq(ret.before, 1, h - n)

\* C32: a wrong guess, with or without the comparison message of the
\* reagents game, adds one to the attempt counter of the running game it
\* was checked against and changes nothing else: the registry, the tasks
\* and their cancellations, the rest of the game object, every other game
\* and the scoreboard are as before.
C32_WrongGuessOnlyCountsAnAttempt ==
    [][last'.op = "wrong_guess" =>
         LET s == last'.sess IN
         /\ game' = [game EXCEPT ![s] = [game[s] EXCEPT !.tries = @ + 1]]
         /\ registry' = registry
         /\ registry[last'.chan] = s
         /\ UNCHANGED <<sessVars, taskVars, startpc, outcome, players>>]_vars

\* C32 witness: a message naming another substance of the database was
\* a wrong guess in a reagents game, answered with the comparison, and
\* the game is registered with its timer waiting and no profile credited.
C32_Witness ==
    /\ last.op = "wrong_guess"
    /\ last.msg = "comparison"
    /\ variant[last.sess] = "reagents"
    /\ registry[last.chan] = last.sess
    /\ game[last.sess].tries > 0
    /\ taskpc[last.sess] = "sleep" /\ last.sess \notin cancelled
    /\ \A p \in Players : players[p] = DefaultProfile

\* C33: when pick_clues() selects a result that lists no color change,
\* every result of the substance that lists one is selected too.
C33_ColoredCluesComeFirst ==
    ret.call = "pick_clues" =>
       ((\E i \in 1..Len(ret.value) : ~ret.value[i].colors) =>
          \A r \in Range(ret.results) : r.colors => r \in Range(ret.value))

\* C33 witness: of ten results, some with a color change and some
\* without, every colored one was picked, and of the colorless ones some
\* were picked and one was left out.
C33_Witness ==
    /\ ret.call = "pick_clues"
    /\ Len(ret.results) = 10
    /\ \E r \in Range(ret.results) : r.colors
    /\ \A r \in Range(ret.results) : r.colors => r \in Range(ret.value)
    /\ \E r \in Range(ret.value) : ~r.colors
    /\ \E r \in Range(ret.results) : ~r.colors /\ r \notin Range(ret.value)

\* C34: a winning guess adds one to the winner's counter of the variant
\* that was played (won_structure_games for a structure game,
\* won_reagents_games for a reagents game), leaves the winner's other
\* counter as it was and changes no other profile.
C34_WinCountsForItsVariant ==
    [][last'.op = "win" =>
         \E p \in Players :
           /\ \A q \in Players \ {p} : players'[q] = players[q]
           /\ IF variant[last'.sess] = "structure"
              THEN /\ players'[p].won_structure_games
                        = players[p].won_structure_games + 1
                   /\ players'[p].won_reagents_games
                        = players[p].won_reagents_games
              ELSE /\ players'[p].won_reagents_games
                        = players[p].won_reagents_games + 1
                   /\ players'[p].won_structure_games
                        = players[p].won_structure_games]_vars

\* C35: a running game never has more than one task in its task set; a
\* task is added to the set only by start(), once, to an empty set; the
\* timeout of a reagents game leaves its sleep once and, having fired,
\* never sleeps again.
C35_OneTaskPerSession ==
    /\ [](\A s \in Sessions : Cardinality(tasks[s]) <= 1)
    /\ [][\A s \in Sessions :
            tasks'[s] \ tasks[s] # {} =>
               /\ tasks[s] = {}
               /\ startpc[s] = "send"
               /\ startpc'[s] = "done"]_vars
    /\ [][\A t \in Tasks :
            /\ (last'.op = "timer" /\ last'.sess = GameOf(t)) =>
                 (taskpc[t] = "sleep" /\ taskpc'[t] = "lookup")
            /\ (variant[GameOf(t)] = "reagents"
                  /\ taskpc[t] \in {"lookup", "send", "done"}) =>
                 taskpc'[t] # "sleep"]_vars

\* C35 witness: the timeout of a registered reagents game has fired, and
\* its task, the only one of the game, is building the end view.
C35_Witness ==
    /\ last.op = "timer"
    /\ variant[last.sess] = "reagents"
    /\ taskpc[last.sess] = "lookup"
    /\ tasks[last.sess] = {last.sess}
    /\ registry[last.chan] = last.sess

\* C36: when the task of a running game has issued the "no one found the
\* solution" message, which gives the answer, the game is no longer in
\* the registry; and no guess wins a game, or is credited for it, whose
\* timeout message has been issued.
C36_TimeoutUnregistersBeforeDisclosure ==
    /\ [](\A s \in Sessions : taskpc[s] = "send" => registry[channel[s]] # s)
    /\ [][\A s \in Sessions :
            (last'.op = "win" /\ last'.sess = s) =>
               (taskpc[s] # "send" /\ outcome[s] # "timeout")]_vars

\* C37: crediting a structure win is all-or-nothing for every profile,
\* fresh or loaded from the file: a step of check_answer that raises the
\* winner's balance and won-games counter also puts the substance in the
\* winner's found-substances collection.
C37_StructureCreditIsAllOrNothing ==
    [][\A p \in Players, g \in WonGames :
          (last'.op = "win" /\ g.kind = "StructureGame" /\ Win(p, g)) =>
             \/ players'[p] = players[p]
             \/ /\ players'[p].balance = players[p].balance + reward(g)
                /\ players'[p].won_structure_games =
                      players[p].won_structure_games + 1
                /\ g.substance \in
                      Elements(players'[p].found_structure_substances)]_vars

\* The cogs whose on_message handler checks a message of channel c.
CheckingCogs(c) == {cls \in Variants : get_from_context(cls, c) # None}

\* C38: of the two cogs that hear a message, the one of the variant of the
\* channel's registered game checks it and the other does not, so the
\* message is checked once; a check adds one to the attempts of that game,
\* whoever wrote the message, and changes no other game, and a handler
\* that does not check changes no game.
C38_MessageCheckedOnceByItsVariant ==
    /\ [](\A c \in Channels :
            CheckingCogs(c) = IF registry[c] = None THEN {}
                              ELSE {variant[registry[c]]})
    /\ [][/\ (last'.op \in {"win", "wrong_guess"}) =>
                (/\ CheckingCogs(last'.chan) = {variant[last'.sess]}
                 /\ registry[last'.chan] = last'.sess
                 /\ game' = [game EXCEPT ![last'.sess].tries = @ + 1])
          /\ (last'.op = "message_ignored") => (game' = game)]_vars

\* A wrong guess has been counted for a game that is still running.
C38_Witness ==
    \E s \in Sessions :
       /\ Live(s)
       /\ last = Event("wrong_guess", channel[s], s)
       /\ game[s].tries = 1
       /\ CheckingCogs(channel[s]) = {variant[s]}
       /\ players[owner[s]] = DefaultProfile

\* C39: whatever the balances of the profiles have been and whichever
\* profiles filled the caches, a read of level, next_level, next_level_in
\* or level_progress returns the value computed afresh from the current
\* balance of the profile read, and every cached value is the fresh value
\* of its key.
C39_MemoizedEqualsFresh ==
    /\ [](obj.kind = "cache" =>
            \A method \in MemoMethods : \A key \in DOMAIN obj[method] :
               obj[method][key] = Fresh(method, key))
    /\ [][(obj.kind = "cache" /\ players' = players /\ ret'.call = "read") =>
            ret'.value = Fresh(ret'.method, players[ret'.instance].balance)]_vars

\* A read of level_progress on bob's profile, on the threshold of the
\* second level, is answered from the cache while alice's profile is past
\* the last threshold.
C39_Witness ==
    /\ ret # NoCall
    /\ ret.call = "read"
    /\ ret.instance = "bob"
    /\ ret.hit
    /\ ret.method = "level_progress"
    /\ players["bob"].balance = 840
    /\ players["alice"].balance = 40000
    /\ ret.value = [num |-> 0, den |-> 1160]

\* C40: the client never locks out for good: every get() call that waits
\* for the semaphore is eventually admitted, whether the requests before
\* it returned or raised.
C40_EveryGetIsEventuallyAdmitted ==
    \A k \in Callers :
       (obj.kind = "client" /\ obj.pc[k] = "waiting")
          ~> (obj.kind = "client" /\ obj.pc[k] = "request")

====
